---- MODULE Spec2Model ----
(***************************************************************************)
(* Catalog reconciliation of cooperation_BI: the per-category reconciler   *)
(* of update_database.py (update_category_data) and the update cycle of    *)
(* realtime_updater.py (RealTimeUpdater.update_data), against a remote     *)
(* catalog that changes and fails on its own.                              *)
(***************************************************************************)
EXTENDS Integers, Sequences, FiniteSets, TLC

\* ---------------------------------------------------------------- bounds
MaxId == 3            \* offer ids 1..MaxId exist on the remote side
MaxCat == 2           \* categories 1..MaxCat
MaxRuns == 2          \* reconciliation runs in one behaviour
MaxCalls == 3         \* start() and stop() calls in one behaviour
MaxOffers == 2        \* rows of the offers table the analytics read
MaxTopRows == 3       \* rows of the offers table get_top_products reads
MaxPriceRows == 4     \* rows of the offers table get_price_distribution reads
MaxPolls == 3         \* requests of /api/update-status in one behaviour
MaxPollers == 2       \* requests the dashboard serves at a time
MaxWindow == 2        \* MAX_CATEGORIES_PER_CYCLE is None (0) or 1..MaxWindow
MaxListed == 4        \* categories the remote service lists, at most
IntervalSeconds == 2  \* self.interval_seconds: one-second slices of a sleep

Ids == 1..MaxId
Cats == 1..MaxCat
\* The content of an offer's fields (name, price, ...): two versions tell an
\* overwritten row from an untouched one.
Payload == {"a", "b"}

\* The remote service files every offer under one category
\* (firstTnvedCategoryId): the last id under the last category, the others
\* under category 1.
CategoryOf(id) == IF id = MaxId THEN MaxCat ELSE 1

VARIABLES
    db,            \* offers table, committed rows: set of [id, cat, val]
    tx,            \* offers table as the cycle's connection sees it (pending rows too)
    categories_tbl,\* categories table: the ids stored
    remote,        \* offers the remote service holds now: set of [id, val]
    runs,          \* reconciliation runs started so far; the clock of timestamps
    pc,            \* position of the running call
    mode,          \* the program that runs: "cli" is update_database.py, "cycle" is
                   \* realtime_updater.py (one writer of the mirror at a time)
    category_id,   \* the category being reconciled
    full_update,   \* update_category_data: argument
    existing_ids,  \* local: the id snapshot read at the start of the reconciliation
    total_offers,  \* fetch_all_offers_for_category: total learnt by the first request
    offers,        \* local: the fetched offer list (sequence of [id, val, shape])
    fetched,       \* what the fetch really was: "ok", "confirmed_empty", "failed"
    created,       \* ids created on the remote side since the snapshot was read
    failed_ids,    \* ids whose INSERT raised sqlite3.Error in this reconciliation
    deleted_ids,   \* remove_deleted_offers: local deleted_ids
    stats,         \* the statistics of this category
    db0,           \* the offers table when this category's reconciliation started
    prev,          \* the preceding update_category_data call: [cat, full, offers, clean]
    categories,    \* update_data: the fetched category list (sequence of [id, shape])
    idx,           \* update_data: position in categories_to_update
    attempt,       \* fetch_categories_with_retry: attempt
    cycle_stats,   \* update_data: cycle_stats
    self_stats,    \* RealTimeUpdater.stats
    status_file,   \* update_status.json: <<>> or <<the saved stats>>
    cache_control, \* cache_control.json: <<>> or <<[last_update, should_refresh]>>
    outcome,       \* how update_data ended: "none", "returned", "raised"
    start          \* the mirror and self.stats when update_data was entered

store == <<db, tx, categories_tbl>>
call == <<category_id, full_update, existing_ids, total_offers, offers, fetched,
          created, failed_ids, deleted_ids, stats, db0>>
cycle == <<categories, idx, attempt, cycle_stats, self_stats, status_file,
           cache_control, outcome, start>>
base == <<store, remote, runs, pc, mode, call, prev, cycle>>

\* The background service of realtime_updater.py (start, stop, run_loop).
VARIABLES
    running,        \* self.running
    thread,         \* self.thread: the worker created last, 0 is None
    workers,        \* the threads that run run_loop: [pc, i, at, errs, last]
    ctl,            \* the caller of start() and stop(): "idle" or "joining"
    calls,          \* start() and stop() calls made so far
    current_status  \* self.stats["current_status"] as saved in update_status.json
loopv == <<running, thread, workers, ctl, calls, current_status>>


\* One call of fetch_all_offers_for_category, request by request.
VARIABLES
    fetch_pc,        \* "idle", "first", "second", "returned"
    fetch_calls,     \* calls made so far
    remote_total,    \* offers the remote service holds for the category now
    requests_log,    \* the take parameter of every request issued by the call
    first_response,  \* what the take = 1 request met: "none" before it
    second_response, \* what the take = total request met
    learned_total,   \* local total_offers
    returned_offers  \* the length of the list returned
fetchv == <<fetch_pc, fetch_calls, remote_total, requests_log, first_response,
            second_response, learned_total, returned_offers>>


\* One call of fetch_categories_with_retry and what update_data makes of it.
VARIABLES
    retry_pc,      \* "idle", "attempting", "returned", "taken"
    retry_calls,   \* calls made so far
    attempts_log,  \* per attempt made: [response, wait], wait the seconds slept after it
    retry_result,  \* "none", "categories" or "empty" (the list [])
    recorded       \* cycle_stats["errors"] after update_data has tested the result
retryv == <<retry_pc, retry_calls, attempts_log, retry_result, recorded>>


\* The analytics of analyze_data.py over the mirror.
VARIABLES
    mirror,        \* offers table as the analytics read it: sequence of rows
    mirror0,       \* the rows before the first analytics call
    analytics_pc,  \* "idle" or "done"
    analytics_op,  \* the operation called last
    result         \* what it returned: [raised, value]
anav == <<mirror, mirror0, analytics_pc, analytics_op, result>>


\* The requests of the dashboard's /api/update-status, beside the updater;
\* the first three variables are per serving thread.
VARIABLES
    poll_pc,        \* "idle", "control" (status read), "clear", "reset"
    poll_control,   \* local cache_control: what the request read, <<>> before
    poll_response,  \* what the last request answered: "none", "status" (the
                    \* status record), "cleared" (with cache_just_cleared)
    polls,          \* requests made so far
    written,        \* last_update of the newest signal a cycle wrote, 0 none
    cleared_after   \* the newest signal written before the last cache.clear()
pollv == <<poll_pc, polls, poll_control, poll_response, written,
          cleared_after>>

\* The cycles of update_data under --max-categories, as far as the choice
\* of the categories goes.
VARIABLES
    max_categories,       \* MAX_CATEGORIES_PER_CYCLE: 0 is None
    category_list,        \* the list the remote service returns, the same
                          \* at every cycle
    rot_pc,               \* "idle" or "loop"
    rot_total_updates,    \* self.stats["total_updates"]
    categories_to_update, \* update_data: the categories of this cycle
    rot_idx,              \* position in categories_to_update
    reconciled,           \* categories some cycle has taken up so far
    completed,            \* cycles completed since the service started
    aborted               \* cycles ended by the outer handler since then
rotv == <<max_categories, category_list, rot_pc, rot_total_updates,
          categories_to_update, rot_idx, reconciled, completed, aborted>>

sidev == <<pollv, rotv>>
aux == <<loopv, fetchv, retryv, anav, sidev>>
vars == <<base, aux>>

NoStats == [new |-> 0, updated |-> 0, deleted |-> 0, total |-> 0]
NoPrev == [cat |-> 0, full |-> FALSE, offers |-> <<>>, clean |-> FALSE,
           stats |-> NoStats]

\* ------------------------------------------------------------ the store
\* SELECT id FROM offers WHERE category_id = ?
get_existing_offer_ids(conn, c) == {o.id : o \in {x \in conn : x.cat = c}}

\* INSERT OR REPLACE INTO offers: id is the primary key of the whole table, so
\* the row with this id, whatever its category, is replaced.
InsertOrReplace(conn, id, c, val) ==
    {x \in conn : x.id # id} \cup {[id |-> id, cat |-> c, val |-> val]}

Range(s) == {s[i] : i \in 1..Len(s)}

\* ----------------------------------------------------------- the remote
RECURSIVE SortedById(_)
SortedById(S) ==
    IF S = {} THEN <<>>
    ELSE LET m == CHOOSE x \in S : \A y \in S : x.id <= y.id
         IN <<m>> \o SortedById(S \ {m})

\* GetAllOffer?firstTnvedCategoryId=c&skip=0&take=n
RemoteOffersOf(c) == {r \in remote : CategoryOf(r.id) = c}
GetAllOffer(c, take) ==
    LET all == SortedById(RemoteOffersOf(c))
    IN SubSeq(all, 1, IF take < Len(all) THEN take ELSE Len(all))

\* ------------------------------------------------- update_database.py
\* Next to some functions stands a variant that differs from the source in
\* one place (its name says where). No variant takes part in Spec: each is
\* told from the original by one of the properties at the end of the module.
\* for offer in offers: ... (the loop of insert_or_update_offers from record i).
\* A record whose productName is null raises AttributeError, which the
\* except sqlite3.Error clause does not catch: the loop ends with the rows
\* written so far pending. A record in failing raises sqlite3.Error and is
\* skipped.
\* is_new inverted: an id of the snapshot is counted new.
RECURSIVE InsertLoop_Inverted(_, _, _, _, _, _, _, _)
InsertLoop_Inverted(conn, list, i, c, existing, failing, new, updated) ==
    IF i > Len(list)
    THEN [conn |-> conn, new |-> new, updated |-> updated, raised |-> FALSE]
    ELSE LET offer == list[i]
             is_new == offer.id \in existing
         IN IF offer.shape = "malformed"
            THEN [conn |-> conn, new |-> new, updated |-> updated, raised |-> TRUE]
            ELSE IF offer.id \in failing
            THEN InsertLoop_Inverted(conn, list, i + 1, c, existing, failing,
                                     new, updated)
            ELSE InsertLoop_Inverted(InsertOrReplace(conn, offer.id, c, offer.val),
                                     list, i + 1, c, existing, failing,
                                     IF is_new THEN new + 1 ELSE new,
                                     IF is_new THEN updated ELSE updated + 1)

RECURSIVE InsertLoop(_, _, _, _, _, _, _, _)
InsertLoop(conn, list, i, c, existing, failing, new, updated) ==
    IF i > Len(list)
    THEN [conn |-> conn, new |-> new, updated |-> updated, raised |-> FALSE]
    ELSE LET offer == list[i]
             is_new == offer.id \notin existing
         IN IF offer.shape = "malformed"
            THEN [conn |-> conn, new |-> new, updated |-> updated, raised |-> TRUE]
            ELSE IF offer.id \in failing
            THEN InsertLoop(conn, list, i + 1, c, existing, failing, new, updated)
            ELSE InsertLoop(InsertOrReplace(conn, offer.id, c, offer.val), list,
                            i + 1, c, existing, failing,
                            IF is_new THEN new + 1 ELSE new,
                            IF is_new THEN updated ELSE updated + 1)

\* The snapshot is ignored: every record is classified against no ids.
insert_or_update_offers_NoSnapshot(conn, list, c, existing, failing) ==
    InsertLoop(conn, list, 1, c, {}, failing, 0, 0)

insert_or_update_offers(conn, list, c, existing, failing) ==
    InsertLoop(conn, list, 1, c, existing, failing, 0, 0)

\* The DELETE is not executed, the ids are still reported.
remove_deleted_offers_KeepsRows(conn, c, current_offer_ids) ==
    [conn |-> conn,
     deleted_ids |-> get_existing_offer_ids(conn, c) \ current_offer_ids]

remove_deleted_offers(conn, c, current_offer_ids) ==
    LET existing == get_existing_offer_ids(conn, c)
        gone == existing \ current_offer_ids
    IN [conn |-> {x \in conn : ~(x.cat = c /\ x.id \in gone)},
        deleted_ids |-> gone]

\* current_offer_ids = {offer.get("id") for offer in offers if offer.get("id")}
CurrentOfferIds(list) == {o.id : o \in {x \in Range(list) : x.id # 0}}

\* Without the "if not offers" return: an empty list goes on to the deletion.
UpdateCategoryDataApply_NoEmptyReturn(conn, c, full, existing, list, failing) ==
    LET up == insert_or_update_offers(conn, list, c, existing, failing)
        rm == IF full
              THEN remove_deleted_offers(up.conn, c, CurrentOfferIds(list))
              ELSE [conn |-> up.conn, deleted_ids |-> {}]
    IN [conn |-> rm.conn,
        stats |-> [new |-> up.new, updated |-> up.updated,
                   deleted |-> Cardinality(rm.deleted_ids), total |-> Len(list)],
        deleted_ids |-> rm.deleted_ids, raised |-> up.raised]

\* Without the "if full_update" test: the deletion always runs.
UpdateCategoryDataApply_AlwaysDeletes(conn, c, full, existing, list, failing) ==
    IF list = <<>>
    THEN [conn |-> conn, stats |-> NoStats, deleted_ids |-> {}, raised |-> FALSE]
    ELSE LET up == insert_or_update_offers(conn, list, c, existing, failing)
             rm == remove_deleted_offers(up.conn, c, CurrentOfferIds(list))
         IN [conn |-> rm.conn,
             stats |-> [new |-> up.new, updated |-> up.updated,
                        deleted |-> Cardinality(rm.deleted_ids),
                        total |-> Len(list)],
             deleted_ids |-> rm.deleted_ids, raised |-> up.raised]

\* update_category_data from "if not offers" to its return.
UpdateCategoryDataApply(conn, c, full, existing, list, failing) ==
    IF list = <<>>
    THEN [conn |-> conn, stats |-> NoStats, deleted_ids |-> {}, raised |-> FALSE]
    ELSE LET up == insert_or_update_offers(conn, list, c, existing, failing)
             rm == IF full
                   THEN remove_deleted_offers(up.conn, c, CurrentOfferIds(list))
                   ELSE [conn |-> up.conn, deleted_ids |-> {}]
         IN IF up.raised
            THEN [conn |-> conn, stats |-> NoStats, deleted_ids |-> {},
                  raised |-> TRUE]
            ELSE [conn |-> rm.conn,
                  stats |-> [new |-> up.new, updated |-> up.updated,
                             deleted |-> Cardinality(rm.deleted_ids),
                             total |-> Len(list)],
                  deleted_ids |-> rm.deleted_ids, raised |-> FALSE]

\* ------------------------------------------------ realtime_updater.py
MAX_RETRIES == 3

NoCycleStats == [new_offers |-> 0, updated_offers |-> 0, deleted_offers |-> 0,
                 categories_processed |-> 0, errors |-> <<>>]
\* RealTimeUpdater.__init__: self.stats (timestamps: 0 is None)
InitialStats == [last_update |-> 0, last_success |-> 0, last_error |-> 0,
                 last_error_message |-> "", total_updates |-> 0,
                 total_new_offers |-> 0, total_updated_offers |-> 0,
                 total_deleted_offers |-> 0]

\* The abort counted as a completed update.
NoCategoriesAbort_CountsUpdate(st, cs, now) ==
    [self_stats |-> [st EXCEPT !.last_error = now,
                               !.last_error_message = "no categories",
                               !.last_success = now,
                               !.total_updates = @ + 1],
     cycle_stats |-> [cs EXCEPT !.errors = Append(@, [kind |-> "no categories",
                                                       cat |-> 0])],
     outcome |-> "returned"]

\* "if not categories:" of update_data: the cycle is given up.
NoCategoriesAbort(st, cs, now) ==
    [self_stats |-> [st EXCEPT !.last_error = now,
                               !.last_error_message = "no categories"],
     cycle_stats |-> [cs EXCEPT !.errors = Append(@, [kind |-> "no categories",
                                                       cat |-> 0])],
     outcome |-> "returned"]

\* The outer handler re-raises after recording the error.
CriticalError_Reraises(st, cs, now) ==
    [self_stats |-> [st EXCEPT !.last_error = now,
                               !.last_error_message = "critical"],
     cycle_stats |-> [cs EXCEPT !.errors = Append(@, [kind |-> "critical",
                                                       cat |-> 0])],
     outcome |-> "raised"]

\* The outer "except Exception" of update_data.
CriticalError(st, cs, now) ==
    [self_stats |-> [st EXCEPT !.last_error = now,
                               !.last_error_message = "critical"],
     cycle_stats |-> [cs EXCEPT !.errors = Append(@, [kind |-> "critical",
                                                       cat |-> 0])],
     outcome |-> "returned"]

\* "Update global stats" of update_data.
FinishStats(st, cs, now) ==
    [st EXCEPT !.last_update = now, !.last_success = now,
               !.total_updates = @ + 1,
               !.total_new_offers = @ + cs.new_offers,
               !.total_updated_offers = @ + cs.updated_offers,
               !.total_deleted_offers = @ + cs.deleted_offers]

\* "Clear dashboard cache if data changed"
DataChanged(cs) ==
    cs.new_offers > 0 \/ cs.updated_offers > 0 \/ cs.deleted_offers > 0

clear_dashboard_cache(now) == <<[last_update |-> now, should_refresh |-> TRUE]>>

\* The body of the per-category try of update_data, from "if not offers":
\* conn is the connection's view, committed the committed table.
ProcessCategory(conn, committed, c, existing, list, failing, cs) ==
    IF list = <<>>
    THEN [tx |-> conn, db |-> committed, stats |-> NoStats, deleted_ids |-> {},
          cycle_stats |-> [cs EXCEPT !.categories_processed = @ + 1]]
    ELSE LET up == insert_or_update_offers(conn, list, c, existing, failing)
             rm == remove_deleted_offers(up.conn, c, {o.id : o \in Range(list)})
         IN IF up.raised
            THEN \* except Exception: the rows written so far stay pending
                 [tx |-> up.conn, db |-> committed, stats |-> NoStats,
                  deleted_ids |-> {},
                  cycle_stats |-> [cs EXCEPT !.errors =
                                     Append(@, [kind |-> "category", cat |-> c])]]
            ELSE [tx |-> rm.conn, db |-> rm.conn,
                  stats |-> [new |-> up.new, updated |-> up.updated,
                             deleted |-> Cardinality(rm.deleted_ids),
                             total |-> Len(list)],
                  deleted_ids |-> rm.deleted_ids,
                  cycle_stats |-> [cs EXCEPT
                      !.new_offers = @ + up.new,
                      !.updated_offers = @ + up.updated,
                      !.deleted_offers = @ + Cardinality(rm.deleted_ids),
                      !.categories_processed = @ + 1]]

\* ------------------------------------------ the service at rest
\* RealTimeUpdater.__init__: running = False, thread = None, status "stopped";
\* no thread runs run_loop.
NoWorker == [pc |-> "unborn", i |-> 0, at |-> 0, errs |-> FALSE, last |-> "none"]
LoopIdle ==
    /\ running = FALSE /\ thread = 0
    /\ workers = [t \in 1..MaxCalls |-> NoWorker]
    /\ ctl = "idle" /\ calls = 0
    /\ current_status = "stopped"

\* No call of fetch_all_offers_for_category in progress.
FetchIdle ==
    /\ fetch_pc = "idle" /\ fetch_calls = 0 /\ remote_total = 0
    /\ requests_log = <<>> /\ first_response = "none"
    /\ second_response = "none" /\ learned_total = 0 /\ returned_offers = 0

\* No call of fetch_categories_with_retry in progress.
RetryIdle ==
    /\ retry_pc = "idle" /\ retry_calls = 0 /\ attempts_log = <<>>
    /\ retry_result = "none" /\ recorded = <<>>

\* No analytics call was made; the offers table is empty.
NoResult == [raised |-> FALSE, value |-> <<>>]
AnalyticsIdle ==
    /\ mirror = <<>> /\ mirror0 = <<>>
    /\ analytics_pc = "idle" /\ analytics_op = "none" /\ result = NoResult

\* No request of /api/update-status was made, no signal written.
PollIdle ==
    /\ poll_pc = [p \in 1..MaxPollers |-> "idle"]
    /\ poll_control = [p \in 1..MaxPollers |-> <<>>]
    /\ poll_response = [p \in 1..MaxPollers |-> "none"]
    /\ polls = 0
    /\ written = 0 /\ cleared_after = 0

\* No cycle under --max-categories was run.
RotationIdle ==
    /\ max_categories = 0 /\ category_list = <<>> /\ rot_pc = "idle"
    /\ rot_total_updates = 0 /\ categories_to_update = <<>> /\ rot_idx = 0
    /\ reconciled = {} /\ completed = 0 /\ aborted = 0

SideIdle == PollIdle /\ RotationIdle
AuxIdle == LoopIdle /\ FetchIdle /\ RetryIdle /\ AnalyticsIdle /\ SideIdle

\* ------------------------------------------------------------- actions
\* The mirror holds rows of earlier runs (their fields in the stale version
\* "a"), each under the category the remote service files its id under; the
\* remote service holds any set of offers, in their current version "b".
Rows(ids, vals) == {S \in SUBSET [id : ids, val : vals] :
                      \A x, y \in S : x.id = y.id => x = y}
NoStart == [db |-> {}, categories_tbl |-> {}, self_stats |-> InitialStats]
NoCall ==
    /\ category_id = 0 /\ full_update = FALSE
    /\ existing_ids = {} /\ total_offers = 0 /\ offers = <<>>
    /\ fetched = "none" /\ created = {} /\ failed_ids = {} /\ deleted_ids = {}
    /\ stats = NoStats /\ db0 = {}
\* The locals of a call that has ended are gone.
ResetCall ==
    /\ category_id' = 0 /\ full_update' = FALSE
    /\ existing_ids' = {} /\ total_offers' = 0 /\ offers' = <<>>
    /\ fetched' = "none" /\ created' = {} /\ failed_ids' = {}
    /\ deleted_ids' = {} /\ stats' = NoStats /\ db0' = {}

Init ==
    /\ \E S \in Rows(Ids, {"a"}) :
          db = {[id |-> x.id, cat |-> CategoryOf(x.id), val |-> x.val] : x \in S}
    /\ tx = db
    /\ categories_tbl = Cats
    /\ remote \in Rows(Ids, {"b"})
    /\ runs = 0 /\ pc = "idle" /\ mode \in {"cli", "cycle"}
    /\ NoCall
    /\ prev = NoPrev
    /\ categories = <<>> /\ idx = 0 /\ attempt = 0
    /\ cycle_stats = NoCycleStats /\ self_stats = InitialStats
    /\ status_file = <<>> /\ cache_control = <<>> /\ outcome = "none"
    /\ start = NoStart
    /\ AuxIdle

\* The reconciliation programs at rest, for the specifications of the other
\* parts: an empty mirror, no call and no cycle in progress.
Parked ==
    /\ db = {} /\ tx = {} /\ categories_tbl = {} /\ remote = {}
    /\ runs = 0 /\ pc = "idle" /\ mode = "cycle"
    /\ NoCall
    /\ prev = NoPrev
    /\ categories = <<>> /\ idx = 0 /\ attempt = 0
    /\ cycle_stats = NoCycleStats /\ self_stats = InitialStats
    /\ status_file = <<>> /\ cache_control = <<>> /\ outcome = "none"
    /\ start = NoStart

InFetch == pc \in {"fetch1", "fetch2"}

\* While update_category_data awaits a fetch the remote service publishes a
\* new offer (one per call at most), under an id it never used: no stored row
\* and no remote offer carries it.
RemoteCreate(id, v) ==
    /\ UNCHANGED aux
    /\ mode = "cli" /\ InFetch /\ created = {}
    /\ CategoryOf(id) = category_id
    /\ id \notin {r.id : r \in remote} /\ id \notin {x.id : x \in tx \cup db}
    /\ remote' = remote \cup {[id |-> id, val |-> v]}
    /\ created' = created \cup {id}
    /\ UNCHANGED <<store, runs, pc, mode, category_id, full_update,
                   existing_ids, total_offers, offers, fetched, failed_ids,
                   deleted_ids, stats, db0, prev, cycle>>

\* update_category_data(conn, category_id, name, full_update): the snapshot.
CallUpdateCategoryData(c, full) ==
    /\ UNCHANGED aux
    /\ pc = "idle" /\ mode = "cli" /\ runs < MaxRuns
    /\ runs' = runs + 1
    /\ category_id' = c /\ full_update' = full
    /\ existing_ids' = get_existing_offer_ids(db, c)
    /\ db0' = db
    /\ pc' = "fetch1"
    /\ UNCHANGED <<store, remote, mode, total_offers, offers, fetched,
                   created, failed_ids, deleted_ids, stats, prev, cycle>>

\* fetch_all_offers_for_category: the take = 1 request. Every failure
\* (timeout, HTTP error, envelope without status 200 or without result) and a
\* total of 0 end the fetch with [].
FailureKinds == {"timeout", "http_error", "bad_envelope"}
Fetch1(o) ==
    /\ UNCHANGED aux
    /\ pc = "fetch1"
    /\ LET total == Cardinality(RemoteOffersOf(category_id))
       IN IF o \in FailureKinds
          THEN /\ fetched' = "failed" /\ pc' = "apply" /\ UNCHANGED total_offers
          ELSE IF total = 0
          THEN /\ fetched' = "confirmed_empty" /\ pc' = "apply"
               /\ UNCHANGED total_offers
          ELSE /\ total_offers' = total /\ pc' = "fetch2" /\ UNCHANGED fetched
    /\ UNCHANGED <<store, remote, runs, mode, category_id, full_update,
                   existing_ids, offers, created, failed_ids, deleted_ids,
                   stats, db0, prev, cycle>>

\* fetch_all_offers_for_category: the take = total request. malformed is the
\* set of ids whose record arrives with a null productName.
Fetch2(o, malformed) ==
    /\ UNCHANGED aux
    /\ pc = "fetch2"
    /\ LET data == GetAllOffer(category_id, total_offers)
           list == [i \in 1..Len(data) |->
                      [id |-> data[i].id, val |-> data[i].val,
                       shape |-> IF data[i].id \in malformed
                                 THEN "malformed" ELSE "ok"]]
       IN IF o \in FailureKinds
          THEN /\ malformed = {} /\ offers' = <<>> /\ fetched' = "failed"
          ELSE /\ malformed \subseteq {data[i].id : i \in 1..Len(data)}
               /\ offers' = list
               /\ fetched' = IF list = <<>> THEN "confirmed_empty" ELSE "ok"
    /\ pc' = "apply"
    /\ UNCHANGED <<store, remote, runs, mode, category_id, full_update,
                   existing_ids, total_offers, created, failed_ids,
                   deleted_ids, stats, db0, prev, cycle>>

\* update_category_data after the fetch. failing is the set of ids whose
\* INSERT the store refuses (sqlite3.Error). An exception leaves the function
\* and main(): the pending rows are never committed.
ApplyCategoryData(failing) ==
    /\ UNCHANGED aux
    /\ pc = "apply" /\ mode = "cli"
    /\ failing \subseteq {o.id : o \in Range(offers)}
    /\ LET r == UpdateCategoryDataApply(db, category_id, full_update,
                                        existing_ids, offers, failing)
       IN /\ db' = r.conn /\ tx' = r.conn
          /\ stats' = r.stats
          /\ deleted_ids' = r.deleted_ids
          /\ pc' = IF r.raised THEN "raised" ELSE "done"
    /\ failed_ids' = failing
    /\ UNCHANGED <<categories_tbl, remote, runs, mode, created, category_id,
                   full_update, existing_ids, total_offers, offers, fetched,
                   db0, prev, cycle>>

\* The caller takes the result (or the exception) and the next call may start.
Return ==
    /\ UNCHANGED aux
    /\ pc \in {"done", "raised"}
    /\ prev' = IF pc = "done" /\ fetched = "ok" /\ failed_ids = {}
               THEN [cat |-> category_id, full |-> full_update,
                     offers |-> offers, clean |-> TRUE, stats |-> stats]
               ELSE NoPrev
    /\ pc' = "idle"
    /\ ResetCall
    /\ UNCHANGED <<store, remote, runs, mode, cycle>>

\* ------------------------------------------------ the update cycle
\* The outer handler closes the connection (pending rows are rolled back),
\* saves the stats and returns cycle_stats.
Critical(now) ==
    LET r == CriticalError(self_stats, cycle_stats, now)
    IN /\ self_stats' = r.self_stats
       /\ status_file' = <<r.self_stats>>
       /\ cycle_stats' = r.cycle_stats
       /\ outcome' = r.outcome
       /\ tx' = db
       /\ pc' = "cdone"

\* update_data: cycle_stats is created and the store is opened; a connect
\* that fails is a critical error.
StartCycle(connect_ok) ==
    /\ UNCHANGED aux
    /\ pc = "idle" /\ mode = "cycle" /\ runs < MaxRuns
    /\ runs' = runs + 1
    /\ IF connect_ok
       THEN /\ tx' = db /\ pc' = "cats"
            /\ UNCHANGED <<cycle_stats, self_stats, status_file, outcome>>
       ELSE Critical(runs')
    /\ start' = [db |-> db, categories_tbl |-> categories_tbl,
                 self_stats |-> self_stats]
    /\ UNCHANGED <<db, categories_tbl, remote, mode, call, prev, categories,
                   idx, attempt, cache_control>>

\* One attempt of fetch_categories_with_retry. A good response carries every
\* category, bad being those whose name is null. Every other outcome is
\* retried until MAX_RETRIES attempts were made; then the list is [] and
\* update_data gives the cycle up.
CategoryFailures == {"bad_envelope", "timeout", "connection_error", "other"}
CategoryList(bad) ==
    [i \in 1..MaxCat |-> [id |-> i,
                          shape |-> IF i \in bad THEN "malformed" ELSE "ok"]]
\* for category in categories: update_category(conn, category), exceptions caught
UpdateCategories(tbl, list) ==
    tbl \cup {x.id : x \in {y \in Range(list) : y.shape = "ok"}}

FetchCategoriesAttempt(o, bad) ==
    /\ UNCHANGED aux
    /\ pc = "cats"
    /\ IF o = "ok"
       THEN /\ categories' = CategoryList(bad)
            /\ categories_tbl' = UpdateCategories(categories_tbl, categories')
            /\ idx' = 1 /\ pc' = "cat_begin"
            /\ UNCHANGED <<tx, attempt, cycle_stats, self_stats, status_file,
                           outcome>>
       ELSE /\ bad = {}
            /\ IF attempt < MAX_RETRIES - 1
               THEN /\ attempt' = attempt + 1
                    /\ UNCHANGED <<tx, pc, cycle_stats, self_stats, status_file,
                                   outcome>>
               ELSE LET r == NoCategoriesAbort(self_stats, cycle_stats, runs)
                    IN /\ self_stats' = r.self_stats
                       /\ status_file' = <<r.self_stats>>
                       /\ cycle_stats' = r.cycle_stats
                       /\ outcome' = r.outcome
                       /\ tx' = db
                       /\ pc' = "cdone"
                       /\ UNCHANGED attempt
            /\ UNCHANGED <<categories, categories_tbl, idx>>
    /\ UNCHANGED <<db, remote, runs, mode, call, prev, cache_control, start>>

\* The head of one loop iteration: cat_id and cat_name are read outside the
\* per-category try, so a category whose name is null raises into the outer
\* handler; otherwise the id snapshot is read.
CategoryBegin ==
    /\ UNCHANGED aux
    /\ pc = "cat_begin" /\ idx <= Len(categories)
    /\ IF categories[idx].shape = "malformed"
       THEN /\ Critical(runs)
            /\ UNCHANGED <<call>>
       ELSE /\ category_id' = categories[idx].id
            /\ existing_ids' = get_existing_offer_ids(tx, categories[idx].id)
            /\ db0' = tx
            /\ pc' = "fetch1"
            /\ UNCHANGED <<tx, full_update, total_offers, offers, fetched,
                           created, failed_ids, deleted_ids, stats,
                           cycle_stats, self_stats, status_file, outcome>>
    /\ UNCHANGED <<db, categories_tbl, remote, runs, mode, prev, categories,
                   idx, attempt, cache_control, start>>

\* The rest of the iteration, after the fetch; its locals end with it.
CategoryApply(failing) ==
    /\ UNCHANGED aux
    /\ pc = "apply" /\ mode = "cycle"
    /\ failing \subseteq {o.id : o \in Range(offers)}
    /\ LET r == ProcessCategory(tx, db, category_id, existing_ids, offers,
                                failing, cycle_stats)
       IN /\ tx' = r.tx /\ db' = r.db
          /\ cycle_stats' = r.cycle_stats
    /\ ResetCall
    /\ idx' = idx + 1
    /\ pc' = "cat_begin"
    /\ UNCHANGED <<categories_tbl, remote, runs, mode, prev, categories,
                   attempt, self_stats, status_file, cache_control, outcome,
                   start>>

\* After the loop: close, the global stats, the change signal, save_stats.
FinishCycle ==
    /\ UNCHANGED aux
    /\ pc = "cat_begin" /\ idx > Len(categories)
    /\ tx' = db
    /\ self_stats' = FinishStats(self_stats, cycle_stats, runs)
    /\ cache_control' = IF DataChanged(cycle_stats)
                        THEN clear_dashboard_cache(runs) ELSE cache_control
    /\ status_file' = <<self_stats'>>
    /\ outcome' = "returned"
    /\ pc' = "cdone"
    /\ UNCHANGED <<db, categories_tbl, remote, runs, mode, call, prev,
                   categories, idx, attempt, cycle_stats, start>>

\* update_data has ended; the next run may start.
CycleReturn ==
    /\ UNCHANGED aux
    /\ pc = "cdone"
    /\ pc' = "idle"
    /\ ResetCall
    /\ prev' = NoPrev
    /\ categories' = <<>> /\ idx' = 0 /\ attempt' = 0
    /\ cycle_stats' = NoCycleStats /\ outcome' = "none" /\ start' = NoStart
    /\ UNCHANGED <<store, remote, runs, mode, self_stats, status_file,
                   cache_control>>

\* The faults of one call: no record, or one.
AtMostOne(S) == {{}} \cup {{x} : x \in S}

Next ==
    \/ \E id \in Ids : RemoteCreate(id, "b")
    \/ \E c \in Cats, full \in BOOLEAN : CallUpdateCategoryData(c, full)
    \/ \E o \in {"ok"} \cup FailureKinds : Fetch1(o)
    \/ \E o \in {"ok"} \cup FailureKinds, m \in AtMostOne(Ids) : Fetch2(o, m)
    \/ \E f \in AtMostOne(Ids) : ApplyCategoryData(f)
    \/ Return
    \/ \E ok \in BOOLEAN : StartCycle(ok)
    \/ \E o \in {"ok"} \cup CategoryFailures, bad \in AtMostOne(Cats) :
          FetchCategoriesAttempt(o, bad)
    \/ CategoryBegin
    \/ CategoryApply({})
    \/ FinishCycle
    \/ CycleReturn

Spec == Init /\ [][Next]_vars

\* =================================================== the background service
\* RealTimeUpdater.start, stop and run_loop. A thread that runs run_loop is
\* at "start" (before the status is saved), "test" (while self.running),
\* "cycle" (update_data: the network call numbered at is in flight, 0 the
\* categories request, k the offers request of category k), "slice" (the
\* head of the sleep loop, i slices slept) or "exited".
CycleOutcomes == {"completed", "category_errors", "aborted"}

\* A cycle that was given up is tried again at once, without the sleep.
AfterCycle_RetriesAborted(w, last) ==
    IF last = "aborted"
    THEN [w EXCEPT !.pc = "test", !.at = 0, !.errs = FALSE, !.last = last]
    ELSE [w EXCEPT !.pc = "slice", !.i = 0, !.at = 0, !.errs = FALSE,
                   !.last = last]

\* What run_loop does when update_data has returned: the sleep loop begins,
\* whatever the cycle's outcome.
AfterCycle(w, last) ==
    [w EXCEPT !.pc = "slice", !.i = 0, !.at = 0, !.errs = FALSE, !.last = last]

\* One pass of the sleep loop "for _ in range(self.interval_seconds)".
SleepSlice(w, flag) ==
    IF w.i >= IntervalSeconds THEN [w EXCEPT !.pc = "test"]
    ELSE IF ~flag THEN [w EXCEPT !.pc = "test"]
    ELSE [w EXCEPT !.i = @ + 1]

\* start(): nothing when the service runs; else the flag is set and a new
\* thread is created and started.
ServiceStart ==
    /\ ctl = "idle" /\ calls < MaxCalls
    /\ calls' = calls + 1
    /\ IF running
       THEN UNCHANGED <<running, thread, workers>>
       ELSE /\ running' = TRUE
            /\ thread' = calls'
            /\ workers' = [workers EXCEPT ![calls'] = [NoWorker EXCEPT !.pc = "start"]]
    /\ UNCHANGED <<ctl, current_status, base, fetchv, retryv, anav, sidev>>

\* stop(): the flag is cleared, then self.thread.join(timeout=10).
ServiceStop ==
    /\ ctl = "idle" /\ calls < MaxCalls
    /\ calls' = calls + 1
    /\ running' = FALSE
    /\ ctl' = IF thread # 0 THEN "joining" ELSE "idle"
    /\ UNCHANGED <<thread, workers, current_status, base, fetchv, retryv, anav, sidev>>

\* join returns when the thread has ended, or after 10 seconds while the
\* thread is still inside update_data (a sleeping thread ends within its
\* one-second slice).
JoinReturn(timed_out) ==
    /\ ctl = "joining"
    /\ IF timed_out THEN workers[thread].pc = "cycle"
                    ELSE workers[thread].pc = "exited"
    /\ ctl' = "idle"
    /\ UNCHANGED <<running, thread, workers, calls, current_status, base, fetchv, retryv, anav, sidev>>

\* run_loop: current_status = "running", save_stats.
WorkerBegin(t) ==
    /\ workers[t].pc = "start"
    /\ current_status' = "running"
    /\ workers' = [workers EXCEPT ![t].pc = "test"]
    /\ UNCHANGED <<running, thread, ctl, calls, base, fetchv, retryv, anav, sidev>>

\* "while self.running": update_data is entered (its first network call is
\* the categories request), or the loop ends and "stopped" is saved.
WorkerTest(t) ==
    /\ workers[t].pc = "test"
    /\ IF running
       THEN /\ workers' = [workers EXCEPT ![t].pc = "cycle", ![t].at = 0]
            /\ UNCHANGED current_status
       ELSE /\ workers' = [workers EXCEPT ![t].pc = "exited"]
            /\ current_status' = "stopped"
    /\ UNCHANGED <<running, thread, ctl, calls, base, fetchv, retryv, anav, sidev>>

\* update_data: the network call in flight completes. Without categories the
\* cycle is given up; otherwise the offers of the next category are fetched,
\* and after the last category update_data returns. update_data never reads
\* self.running.
WorkerCall(t, ok) ==
    /\ workers[t].pc = "cycle"
    /\ LET w == workers[t]
       IN workers' = [workers EXCEPT ![t] =
            IF w.at = 0 /\ ~ok THEN AfterCycle(w, "aborted")
            ELSE IF w.at < MaxCat
                 THEN [w EXCEPT !.at = @ + 1, !.errs = w.errs \/ (w.at > 0 /\ ~ok)]
            ELSE AfterCycle(w, IF w.errs \/ ~ok THEN "category_errors"
                                ELSE "completed")]
    /\ UNCHANGED <<running, thread, ctl, calls, current_status, base, fetchv, retryv, anav, sidev>>

\* The sleep loop: "if not self.running: break", time.sleep(1).
WorkerSlice(t) ==
    /\ workers[t].pc = "slice"
    /\ workers' = [workers EXCEPT ![t] = SleepSlice(workers[t], running)]
    /\ UNCHANGED <<running, thread, ctl, calls, current_status, base, fetchv, retryv, anav, sidev>>

LoopInit == Parked /\ AuxIdle

LoopNext ==
    \/ ServiceStart
    \/ ServiceStop
    \/ \E timed_out \in BOOLEAN : JoinReturn(timed_out)
    \/ \E t \in 1..MaxCalls : WorkerBegin(t)
    \/ \E t \in 1..MaxCalls : WorkerTest(t)
    \/ \E t \in 1..MaxCalls, ok \in BOOLEAN : WorkerCall(t, ok)
    \/ \E t \in 1..MaxCalls : WorkerSlice(t)

LoopSpec == LoopInit /\ [][LoopNext]_vars

\* ============================================ fetch_all_offers_for_category
\* What a request can meet: a good envelope, requests.get timing out,
\* raise_for_status raising, a statusCode other than 200, no "result".
FetchResponses == {"ok", "timeout", "http_error", "bad_status", "no_result"}

\* A second request is issued although the total is 0.
AfterFirstRequest_AlwaysSecond(o, total) ==
    IF o = "ok" THEN "second" ELSE "returned"

\* After the take = 1 request: "return []" unless the envelope is good and
\* total_offers is not 0.
AfterFirstRequest(o, total) ==
    IF o = "ok" /\ total # 0 THEN "second" ELSE "returned"

FetchCall(n) ==
    /\ fetch_pc = "idle" /\ fetch_calls < MaxRuns
    /\ fetch_calls' = fetch_calls + 1
    /\ remote_total' = n
    /\ requests_log' = <<>> /\ first_response' = "none"
    /\ second_response' = "none" /\ learned_total' = 0
    /\ returned_offers' = 0
    /\ fetch_pc' = "first"
    /\ UNCHANGED <<base, loopv, retryv, anav, sidev>>

\* params["take"] = 1; requests.get(url, params, timeout=30)
FirstRequest(o) ==
    /\ fetch_pc = "first"
    /\ requests_log' = Append(requests_log, 1)
    /\ first_response' = o
    /\ learned_total' = IF o = "ok" THEN remote_total ELSE 0
    /\ fetch_pc' = AfterFirstRequest(o, learned_total')
    /\ UNCHANGED <<fetch_calls, remote_total, second_response,
                   returned_offers, base, loopv, retryv, anav, sidev>>

\* The remote service publishes an offer between the two requests.
RemoteGrows ==
    /\ fetch_pc = "second" /\ remote_total < MaxId
    /\ remote_total' = remote_total + 1
    /\ UNCHANGED <<fetch_pc, fetch_calls, requests_log, first_response,
                   second_response, learned_total, returned_offers, base,
                   loopv, retryv, anav, sidev>>

\* params["take"] = total_offers; requests.get(url, params, timeout=120)
SecondRequest(o) ==
    /\ fetch_pc = "second"
    /\ requests_log' = Append(requests_log, learned_total)
    /\ second_response' = o
    /\ returned_offers' = IF o = "ok"
                          THEN (IF learned_total < remote_total
                                THEN learned_total ELSE remote_total)
                          ELSE 0
    /\ fetch_pc' = "returned"
    /\ UNCHANGED <<fetch_calls, remote_total, first_response, learned_total,
                   base, loopv, retryv, anav, sidev>>

FetchReturn ==
    /\ fetch_pc = "returned"
    /\ fetch_pc' = "idle"
    /\ UNCHANGED <<fetch_calls, remote_total, requests_log, first_response,
                   second_response, learned_total, returned_offers, base,
                   loopv, retryv, anav, sidev>>

FetchInit == Parked /\ AuxIdle

FetchNext ==
    \/ \E n \in 0..MaxId : FetchCall(n)
    \/ \E o \in FetchResponses : FirstRequest(o)
    \/ RemoteGrows
    \/ \E o \in FetchResponses : SecondRequest(o)
    \/ FetchReturn

FetchSpec == FetchInit /\ [][FetchNext]_vars

\* ============================================== fetch_categories_with_retry
\* What session.get and the envelope test of one attempt can meet.
CategoryResponses == {"ok"} \cup CategoryFailures

\* The sleep goes on after the last attempt too.
WaitAfter_AlsoAfterLast(o, n) ==
    IF o \in {"timeout", "connection_error"} THEN (2 ^ n) * 2 ELSE 5

\* The seconds slept after attempt n (counted from 0) has failed with o:
\* (2 ** attempt) * 2 after a timeout or a connection error, 5 after a bad
\* envelope or another exception, nothing after the last attempt.
WaitAfter(o, n) ==
    IF n >= MAX_RETRIES - 1 THEN 0
    ELSE IF o \in {"timeout", "connection_error"} THEN (2 ^ n) * 2
    ELSE 5

RetryCall ==
    /\ retry_pc = "idle" /\ retry_calls < MaxRuns
    /\ retry_calls' = retry_calls + 1
    /\ attempts_log' = <<>> /\ retry_result' = "none" /\ recorded' = <<>>
    /\ retry_pc' = "attempting"
    /\ UNCHANGED <<base, loopv, fetchv, anav, sidev>>

\* One pass of "for attempt in range(MAX_RETRIES)": a good envelope is
\* returned; every failure is followed by the next attempt unless this was
\* the last, which returns [].
RetryAttempt(o) ==
    /\ retry_pc = "attempting"
    /\ LET n == Len(attempts_log)
       IN /\ attempts_log' = Append(attempts_log,
                                    [response |-> o,
                                     wait |-> IF o = "ok" THEN 0
                                              ELSE WaitAfter(o, n)])
          /\ IF o = "ok"
             THEN retry_result' = "categories" /\ retry_pc' = "returned"
             ELSE IF n < MAX_RETRIES - 1
             THEN UNCHANGED <<retry_result, retry_pc>>
             ELSE retry_result' = "empty" /\ retry_pc' = "returned"
    /\ UNCHANGED <<retry_calls, recorded, base, loopv, fetchv, anav, sidev>>

\* update_data: "if not categories" appends the cycle-level error.
RetryTaken ==
    /\ retry_pc = "returned"
    /\ recorded' = IF retry_result = "empty"
                   THEN NoCategoriesAbort(InitialStats, NoCycleStats,
                                          retry_calls).cycle_stats.errors
                   ELSE <<>>
    /\ retry_pc' = "taken"
    /\ UNCHANGED <<retry_calls, attempts_log, retry_result, base, loopv,
                   fetchv, anav, sidev>>

RetryDone ==
    /\ retry_pc = "taken"
    /\ retry_pc' = "idle"
    /\ UNCHANGED <<retry_calls, attempts_log, retry_result, recorded, base,
                   loopv, fetchv, anav, sidev>>

RetryInit == Parked /\ AuxIdle

RetryNext ==
    \/ RetryCall
    \/ \E o \in CategoryResponses : RetryAttempt(o)
    \/ RetryTaken
    \/ RetryDone

RetrySpec == RetryInit /\ [][RetryNext]_vars

\* ------------------------------------------------------------ analytics
\* analyze_data.py: every function takes a connection and returns a value
\* computed from SELECT statements over the offers and categories tables.
\* A row carries the columns the statements read; status_date is kept as
\* its age in days, and an average is kept in hundredths, as rounded by
\* round(x, 2).

ProductNames == {"A", "B"}
MeasureNames == {"kg", "t"}
UnitPrices == {0, 12, 24}
Ages == {1, 40}

\* Rows that differ in what the price aggregations read.
PricedRows ==
    [product_name_ru : ProductNames, category_id : {1},
     measure_name : MeasureNames, unit_price : UnitPrices,
     product_quantity : {2, 4}, is_certificate : {1}, age : {1}]

\* Rows that differ in what the other aggregations read; category 3 has no
\* row in the categories table.
DatedRows ==
    [product_name_ru : {"A"}, category_id : {1, 3},
     measure_name : {"kg"}, unit_price : {12},
     product_quantity : {0, 2}, is_certificate : {0, 1}, age : Ages]

OfferRows == PricedRows \cup DatedRows
MirrorContents == UNION {[1..n -> OfferRows] : n \in 0..MaxOffers}
MirrorCategories == {1, 2}

RECURSIVE SumOver(_, _)
SumOver(f, I) ==
    IF I = {} THEN 0
    ELSE LET i == CHOOSE x \in I : TRUE IN f[i] + SumOver(f, I \ {i})

Least(S) == CHOOSE x \in S : \A y \in S : x <= y
Greatest(S) == CHOOSE x \in S : \A y \in S : x >= y

\* MIN(...) or 0, MAX(...) or 0, SUM(...) or 0: an SQL aggregate over no
\* row is NULL.
MinOr0(S) == IF S = {} THEN 0 ELSE Least(S)
MaxOr0(S) == IF S = {} THEN 0 ELSE Greatest(S)

\* round(num / den, 2) in hundredths, and 0 when there is nothing to divide
\* by: "AVG(...) or 0", "... if post_count > 0 else 0".
Round2(num, den) ==
    IF den = 0 THEN 0
    ELSE (num \div den) * 100 + (200 * (num % den) + den) \div (2 * den)

PriceOf(m) == [i \in DOMAIN m |-> m[i].unit_price]
QuantityOf(m) == [i \in DOMAIN m |-> m[i].product_quantity]
ValueOf(m) == [i \in DOMAIN m |-> m[i].unit_price * m[i].product_quantity]
PricesIn(m, I) == {m[i].unit_price : i \in I}
QuantitiesIn(m, I) == {m[i].product_quantity : i \in I}
CertifiedIn(m, I) == {i \in I : m[i].is_certificate = 1}

\* FROM categories c LEFT JOIN offers o ... GROUP BY c.id HAVING offer_count > 0
CategoryRow(m, c) ==
    LET I == {i \in DOMAIN m : m[i].category_id = c}
    IN  [category_id |-> c,
         offer_count |-> Cardinality(I),
         avg_price |-> Round2(SumOver(PriceOf(m), I), Cardinality(I)),
         min_price |-> MinOr0(PricesIn(m, I)),
         max_price |-> MaxOr0(PricesIn(m, I)),
         total_quantity |-> SumOver(QuantityOf(m), I)]

get_category_statistics(m) ==
    {CategoryRow(m, c) :
        c \in {d \in MirrorCategories :
                  \E i \in DOMAIN m : m[i].category_id = d}}

\* get_top_products: one group per (product, category, unit), merged per
\* (product, category).
ProductKeys(m) ==
    {<<m[i].product_name_ru, m[i].category_id>> : i \in DOMAIN m}
ProductRows(m, k) ==
    {i \in DOMAIN m : m[i].product_name_ru = k[1] /\ m[i].category_id = k[2]}
UnitRows(m, k, u) == {i \in ProductRows(m, k) : m[i].measure_name = u}
UnitsOf(m, k) == {m[i].measure_name : i \in ProductRows(m, k)}

\* measure_name = row[2] or "Unknown": the key of a group in the
\* measure_units dictionary of its product.
NoUnit == "NULL"
UnitKey(u) == IF u = NoUnit THEN "Unknown" ELSE u

\* products_dict[key]["measure_units"][measure_name] = {...}: of the groups
\* that share a key the one fetched last stays.  ORDER BY post_count DESC
\* puts the smaller group later; of two groups of equal size the database
\* returns `last` later.
KeptUnit(m, k, key, last) ==
    LET R == {u \in UnitsOf(m, k) : UnitKey(u) = key}
        smallest == {u \in R : \A v \in R :
                        Cardinality(UnitRows(m, k, u))
                          <= Cardinality(UnitRows(m, k, v))}
    IN  IF last \in smallest THEN last ELSE CHOOSE u \in smallest : TRUE

measure_units(m, k, last) ==
    [key \in {UnitKey(u) : u \in UnitsOf(m, k)} |->
        LET I == UnitRows(m, k, KeptUnit(m, k, key, last))
        IN  [post_count |-> Cardinality(I),
             avg_price |-> Round2(SumOver(PriceOf(m), I), Cardinality(I)),
             min_price |-> MinOr0(PricesIn(m, I)),
             max_price |-> MaxOr0(PricesIn(m, I)),
             total_quantity |-> SumOver(QuantityOf(m), I),
             min_quantity |-> MinOr0(QuantitiesIn(m, I)),
             max_quantity |-> MaxOr0(QuantitiesIn(m, I))]]

\* The unit minima that min(... if p > 0) ranges over.
PositiveUnitMinima(units) ==
    {p \in {units[u].min_price : u \in DOMAIN units} : p > 0}

\* min() of an empty sequence raises ValueError.
overall_min_raises(m, k, last) ==
    PositiveUnitMinima(measure_units(m, k, last)) = {}

\* A detail query that counts the offers without a positive price as low.
price_distribution_CountsUnpriced(m, k, avg) ==
    LET I == ProductRows(m, k)
    IN  [low |-> Cardinality({i \in I : 1000 * m[i].unit_price < 7 * avg}),
         mid |-> Cardinality({i \in I :
                                 /\ 1000 * m[i].unit_price >= 7 * avg
                                 /\ 1000 * m[i].unit_price < 13 * avg}),
         high |-> Cardinality({i \in I :
                                  1000 * m[i].unit_price >= 13 * avg})]

\* The per-product detail query: the offers of the product counted
\* against 0.7 and 1.3 times avg, an average in hundredths.
price_distribution(m, k, avg) ==
    LET I == {i \in ProductRows(m, k) : m[i].unit_price > 0}
    IN  [low |-> Cardinality({i \in I : 1000 * m[i].unit_price < 7 * avg}),
         mid |-> Cardinality({i \in I :
                                 /\ 1000 * m[i].unit_price >= 7 * avg
                                 /\ 1000 * m[i].unit_price < 13 * avg}),
         high |-> Cardinality({i \in I :
                                  1000 * m[i].unit_price >= 13 * avg})]

\* sum(all_prices) / len(all_prices), all_prices holding the average of
\* every group once per offer of the group.
weighted_avg(m, k) ==
    Round2(SumOver(PriceOf(m), ProductRows(m, k)),
           Cardinality(ProductRows(m, k)))

TopProduct(m, k, last) ==
    LET I == ProductRows(m, k)
        units == measure_units(m, k, last)
        post_count == Cardinality(I)
        total == SumOver(PriceOf(m), I)
        avg == weighted_avg(m, k)
        overall_min == Least(PositiveUnitMinima(units))
        overall_max == Greatest({units[u].max_price : u \in DOMAIN units})
        total_qty ==
            SumOver([u \in DOMAIN units |-> units[u].total_quantity],
                    DOMAIN units)
    IN  [product_name |-> k[1],
         category_id |-> k[2],
         post_count |-> post_count,
         avg_price |-> avg,
         min_price |-> overall_min,
         max_price |-> overall_max,
         price_range |-> IF overall_max > overall_min
                         THEN overall_max - overall_min ELSE 0,
         price_spread_percentage |->
             IF avg > 0
             THEN Round2((overall_max - overall_min) * 100 * post_count,
                         total)
             ELSE 0,
         total_quantity |-> total_qty,
         avg_quantity |-> Round2(total_qty, post_count),
         min_quantity |->
             Least({units[u].min_quantity : u \in DOMAIN units}),
         max_quantity |->
             Greatest({units[u].max_quantity : u \in DOMAIN units}),
         total_value |-> SumOver(ValueOf(m), I),
         with_certificate |-> Cardinality(CertifiedIn(m, I)),
         certificate_percentage |->
             Round2(Cardinality(CertifiedIn(m, I)) * 100, post_count),
         unique_measures |-> Cardinality(DOMAIN units),
         measure_units |-> units,
         price_distribution |-> price_distribution(m, k, avg)]

\* The order in which products enter products_dict: a product whose
\* largest group is larger is fetched first.
LargestGroup(m, k) ==
    Greatest({Cardinality(UnitRows(m, k, u)) : u \in UnitsOf(m, k)})

\* results.sort(key=post_count, reverse=True): products in falling order of
\* post_count, products of equal count in the order they entered
\* products_dict.
TopOrders(m) ==
    LET K == ProductKeys(m)
        n == Cardinality(K)
    IN  {s \in [1..n -> K] :
            /\ \A k \in K : \E j \in 1..n : s[j] = k
            /\ \A a, b \in 1..n :
                   a < b =>
                     \/ Cardinality(ProductRows(m, s[a]))
                          > Cardinality(ProductRows(m, s[b]))
                     \/ /\ Cardinality(ProductRows(m, s[a]))
                             = Cardinality(ProductRows(m, s[b]))
                        /\ LargestGroup(m, s[a]) >= LargestGroup(m, s[b])}

\* The groups of one product that share the key "Unknown" and have the
\* same size: either may be fetched last.
TiedUnits(m) ==
    IF \E k \in ProductKeys(m) :
           /\ UnitRows(m, k, NoUnit) # {}
           /\ Cardinality(UnitRows(m, k, NoUnit))
                = Cardinality(UnitRows(m, k, "Unknown"))
    THEN {NoUnit, "Unknown"}
    ELSE {"Unknown"}

\* What the statement's ORDER BY leaves to the database: the order of
\* groups of equal size.
DatabaseOrders(m) == [order : TopOrders(m), last : TiedUnits(m)]

\* The detail query runs in the loop over every aggregated product and
\* again in the loop over the returned ones.
DetailQueries(aggregated, returned) == aggregated + returned

get_top_products(m, limit, dbo) ==
    IF \E k \in ProductKeys(m) : overall_min_raises(m, k, dbo.last)
    THEN [raised |-> TRUE, value |-> <<>>]
    ELSE LET n == IF limit < Len(dbo.order) THEN limit ELSE Len(dbo.order)
         IN  [raised |-> FALSE,
              value |-> [j \in 1..n |-> TopProduct(m, dbo.order[j], dbo.last)],
              detail_queries |-> DetailQueries(Len(dbo.order), n)]

\* get_price_distribution: the offers with a positive price.
RECURSIVE SortedFrom(_, _)
SortedFrom(m, I) ==
    IF I = {} THEN <<>>
    ELSE LET i == CHOOSE x \in I :
                      \A y \in I : m[x].unit_price <= m[y].unit_price
         IN  <<m[i].unit_price>> \o SortedFrom(m, I \ {i})

\* SELECT unit_price FROM offers WHERE unit_price > 0 ORDER BY unit_price
SortedPrices(m) == SortedFrom(m, {i \in DOMAIN m : m[i].unit_price > 0})

\* A median that takes the upper of the two middle elements.
median_UpperMiddle(prices) ==
    LET n == Len(prices)
    IN  IF n = 0 THEN 0 ELSE Round2(prices[n \div 2 + 1], 1)

median(prices) ==
    LET n == Len(prices)
    IN  IF n = 0 THEN 0
        ELSE IF n % 2 = 0
             THEN Round2(prices[n \div 2] + prices[n \div 2 + 1], 2)
             ELSE Round2(prices[n \div 2 + 1], 1)

\* A count that puts a price equal to a boundary into the lower bucket.
PricedBetween_BoundaryBelow(m, lo, hi) ==
    Cardinality({i \in DOMAIN m :
                    /\ m[i].unit_price > 0
                    /\ m[i].unit_price > lo /\ m[i].unit_price <= hi})

\* COUNT(CASE WHEN unit_price >= lo AND unit_price < hi THEN 1 END)
\* ... WHERE unit_price > 0
PricedBetween(m, lo, hi) ==
    Cardinality({i \in DOMAIN m :
                    /\ m[i].unit_price > 0
                    /\ m[i].unit_price >= lo /\ m[i].unit_price < hi})

get_price_distribution(m) ==
    LET I == {i \in DOMAIN m : m[i].unit_price > 0}
    IN  [total_offers |-> Cardinality(I),
         avg_price |-> Round2(SumOver(PriceOf(m), I), Cardinality(I)),
         min_price |-> MinOr0(PricesIn(m, I)),
         max_price |-> MaxOr0(PricesIn(m, I)),
         median_price |-> median(SortedPrices(m)),
         price_ranges |->
             [under_100k |-> PricedBetween(m, 0, 100000),
              from_100k_to_500k |-> PricedBetween(m, 100000, 500000),
              from_500k_to_1m |-> PricedBetween(m, 500000, 1000000),
              from_1m_to_5m |-> PricedBetween(m, 1000000, 5000000),
              from_5m_to_10m |-> PricedBetween(m, 5000000, 10000000),
              over_10m |->
                  Cardinality({i \in I : m[i].unit_price >= 10000000})]]

\* WHERE status_date >= datetime('now', '-days days')
Within(m, days) == {i \in DOMAIN m : m[i].age <= days}
\* WHERE date(status_date) = date('now', '-1 day')
Yesterday(m) == {i \in DOMAIN m : m[i].age = 1}
\* JOIN categories c ON o.category_id = c.id ... GROUP BY c.id
ByCategory(m, I) ==
    {[category |-> c,
      count |-> Cardinality({i \in I : m[i].category_id = c}),
      avg_price |->
          Round2(SumOver(PriceOf(m), {i \in I : m[i].category_id = c}),
                 Cardinality({i \in I : m[i].category_id = c}))] :
        c \in {d \in MirrorCategories : \E i \in I : m[i].category_id = d}}
\* GROUP BY product_name_ru
ByProduct(m, I) ==
    {[product_name |-> p,
      count |-> Cardinality({i \in I : m[i].product_name_ru = p}),
      avg_price |->
          Round2(SumOver(PriceOf(m), {i \in I : m[i].product_name_ru = p}),
                 Cardinality({i \in I : m[i].product_name_ru = p})),
      total_quantity |->
          SumOver(QuantityOf(m), {i \in I : m[i].product_name_ru = p})] :
        p \in {m[i].product_name_ru : i \in I}}
\* GROUP BY date(status_date)
ByDay(m, I) ==
    {[age |-> a, count |-> Cardinality({i \in I : m[i].age = a})] :
        a \in {m[i].age : i \in I}}

get_recent_activity(m, days) ==
    [period_days |-> days,
     total_new_offers |-> Cardinality(Within(m, days)),
     daily_activity |-> ByDay(m, Within(m, days)),
     top_categories |-> ByCategory(m, Within(m, days))]

\* SUM(CASE ...) over an empty table is NULL, handed on as None.
get_certificate_statistics(m) ==
    [total |-> Len(m),
     with_certificate |->
         IF Len(m) = 0 THEN "None"
         ELSE Cardinality(CertifiedIn(m, DOMAIN m)),
     without_certificate |->
         IF Len(m) = 0 THEN "None"
         ELSE Cardinality({i \in DOMAIN m : m[i].is_certificate = 0}),
     certificate_percentage |->
         Round2(Cardinality(CertifiedIn(m, DOMAIN m)) * 100, Len(m))]

get_quantity_statistics(m) ==
    LET I == {i \in DOMAIN m : m[i].product_quantity > 0}
    IN  [avg_quantity |-> Round2(SumOver(QuantityOf(m), I), Cardinality(I)),
         min_quantity |-> MinOr0(QuantitiesIn(m, I)),
         max_quantity |-> MaxOr0(QuantitiesIn(m, I)),
         total_quantity |-> SumOver(QuantityOf(m), I)]

get_measure_statistics(m) ==
    [unique_measures |-> Cardinality({m[i].measure_name : i \in DOMAIN m}),
     total_with_measure |-> Len(m),
     top_measures |->
         {LET I == {i \in DOMAIN m : m[i].measure_name = u}
          IN  [measure_name |-> u,
               count |-> Cardinality(I),
               avg_price |-> Round2(SumOver(PriceOf(m), I), Cardinality(I)),
               total_quantity |-> SumOver(QuantityOf(m), I),
               avg_quantity |->
                   Round2(SumOver(QuantityOf(m), I), Cardinality(I))] :
             u \in {m[i].measure_name : i \in DOMAIN m}}]

get_daily_posting_trends(m, days) ==
    [period_days |-> days,
     daily_counts |-> ByDay(m, Within(m, days)),
     yesterday |->
         [total_offers |-> Cardinality(Yesterday(m)),
          categories |->
              Cardinality({m[i].category_id : i \in Yesterday(m)}),
          unique_products |->
              Cardinality({m[i].product_name_ru : i \in Yesterday(m)})],
     yesterday_products |-> ByProduct(m, Yesterday(m)),
     yesterday_categories |-> ByCategory(m, Yesterday(m))]

get_trending_products(m, days) ==
    [period_days |-> days,
     trending_products |->
         {LET I == ProductRows(m, k) \cap Within(m, days)
          IN  [product_name |-> k[1],
               category_id |-> k[2],
               in_categories |-> k[2] \in MirrorCategories,
               recent_count |-> Cardinality(I),
               avg_price |-> Round2(SumOver(PriceOf(m), I), Cardinality(I))] :
             k \in {j \in ProductKeys(m) :
                       ProductRows(m, j) \cap Within(m, days) # {}}}]

get_weekly_monthly_trends(m) ==
    [weekly |-> [products |-> ByProduct(m, Within(m, 7)),
                 categories |-> ByCategory(m, Within(m, 7))],
     monthly |-> [products |-> ByProduct(m, Within(m, 30)),
                  categories |-> ByCategory(m, Within(m, 30))]]

\* get_all_insights calls every function above in turn; an exception of
\* get_top_products(conn, 30) leaves it.
get_all_insights(m, dbo) ==
    LET price_dist == get_price_distribution(m)
        category_stats == get_category_statistics(m)
        top_products == get_top_products(m, 30, dbo)
    IN  IF top_products.raised
        THEN [raised |-> TRUE, value |-> <<>>]
        ELSE [raised |-> FALSE,
              value |->
                  [category_statistics |-> category_stats,
                   top_products |-> top_products.value,
                   price_distribution |-> price_dist,
                   recent_activity |-> get_recent_activity(m, 7),
                   certificate_statistics |-> get_certificate_statistics(m),
                   quantity_statistics |-> get_quantity_statistics(m),
                   measure_statistics |-> get_measure_statistics(m),
                   daily_trends |-> get_daily_posting_trends(m, 30),
                   trending_products |-> get_trending_products(m, 7),
                   weekly_monthly_trends |-> get_weekly_monthly_trends(m),
                   summary |->
                       [total_categories |-> Cardinality(category_stats),
                        total_offers |-> price_dist.total_offers]]]

Returned(v) == [raised |-> FALSE, value |-> v]

\* The rows of the offers table after an analytics function ran on m: each
\* executes SELECT statements only, and none commits.
MirrorAfter_DropsUnpriced(op, m) ==
    IF op = "get_price_distribution"
    THEN SelectSeq(m, LAMBDA r : r.unit_price > 0)
    ELSE m
MirrorAfter(op, m) == m

\* The function named op ends: with the value r.value, or with an exception.
Ends(op, r) ==
    /\ analytics_pc' = "done"
    /\ analytics_op' = op
    /\ result' = r
    /\ mirror' = MirrorAfter(op, mirror)
    /\ UNCHANGED <<mirror0, base, loopv, fetchv, retryv, sidev>>

GetCategoryStatistics ==
    /\ analytics_pc = "idle"
    /\ Ends("get_category_statistics",
            Returned(get_category_statistics(mirror)))
GetTopProducts(limit) ==
    /\ analytics_pc = "idle"
    /\ \E dbo \in DatabaseOrders(mirror) :
           Ends("get_top_products", get_top_products(mirror, limit, dbo))
GetPriceDistribution ==
    /\ analytics_pc = "idle"
    /\ Ends("get_price_distribution",
            Returned(get_price_distribution(mirror)))
GetRecentActivity(days) ==
    /\ analytics_pc = "idle"
    /\ Ends("get_recent_activity",
            Returned(get_recent_activity(mirror, days)))
GetCertificateStatistics ==
    /\ analytics_pc = "idle"
    /\ Ends("get_certificate_statistics",
            Returned(get_certificate_statistics(mirror)))
GetQuantityStatistics ==
    /\ analytics_pc = "idle"
    /\ Ends("get_quantity_statistics",
            Returned(get_quantity_statistics(mirror)))
GetMeasureStatistics ==
    /\ analytics_pc = "idle"
    /\ Ends("get_measure_statistics",
            Returned(get_measure_statistics(mirror)))
GetDailyPostingTrends(days) ==
    /\ analytics_pc = "idle"
    /\ Ends("get_daily_posting_trends",
            Returned(get_daily_posting_trends(mirror, days)))
GetTrendingProducts(days) ==
    /\ analytics_pc = "idle"
    /\ Ends("get_trending_products",
            Returned(get_trending_products(mirror, days)))
GetWeeklyMonthlyTrends ==
    /\ analytics_pc = "idle"
    /\ Ends("get_weekly_monthly_trends",
            Returned(get_weekly_monthly_trends(mirror)))
GetAllInsights ==
    /\ analytics_pc = "idle"
    /\ \E dbo \in DatabaseOrders(mirror) :
           Ends("get_all_insights", get_all_insights(mirror, dbo))

\* The caller takes the value, or the exception, and may call again.
AnalyticsReturn ==
    /\ analytics_pc = "done"
    /\ analytics_pc' = "idle"
    /\ analytics_op' = "none"
    /\ result' = NoResult
    /\ UNCHANGED <<mirror, mirror0, base, loopv, fetchv, retryv, sidev>>

AnalyticsInit ==
    /\ Parked /\ LoopIdle /\ FetchIdle /\ RetryIdle /\ SideIdle
    /\ mirror \in MirrorContents
    /\ mirror0 = mirror
    /\ analytics_pc = "idle" /\ analytics_op = "none" /\ result = NoResult

AnalyticsNext ==
    \/ GetCategoryStatistics
    \/ \E limit \in 1..MaxOffers : GetTopProducts(limit)
    \/ GetPriceDistribution
    \/ \E days \in {7, 30} : GetRecentActivity(days)
    \/ GetCertificateStatistics
    \/ GetQuantityStatistics
    \/ GetMeasureStatistics
    \/ \E days \in {7, 30} : GetDailyPostingTrends(days)
    \/ \E days \in {7, 30} : GetTrendingProducts(days)
    \/ GetWeeklyMonthlyTrends
    \/ GetAllInsights
    \/ AnalyticsReturn

AnalyticsSpec == AnalyticsInit /\ [][AnalyticsNext]_vars

\* --------------------------------------------- get_top_products alone
\* Mirrors whose rows differ in what get_top_products reads: products,
\* units (none, the text "Unknown", a named one), prices (negative, zero,
\* positive) and quantities.
TopPricedRows ==
    [product_name_ru : {"A"}, category_id : {1},
     measure_name : {"kg", "Unknown"}, unit_price : {0 - 12, 0, 12, 24},
     product_quantity : {2}, is_certificate : {1}, age : {1}]
TopUnitRows ==
    [product_name_ru : {"A"}, category_id : {1},
     measure_name : {"kg", NoUnit, "Unknown"}, unit_price : {12},
     product_quantity : {2, 4}, is_certificate : {1}, age : {1}]
\* A second product, for lists longer than limit.
TopOtherRows ==
    [product_name_ru : {"B"}, category_id : {1},
     measure_name : {"kg"}, unit_price : {12, 24},
     product_quantity : {2}, is_certificate : {1}, age : {1}]
TopRows == TopPricedRows \cup TopUnitRows \cup TopOtherRows
TopMirrorContents == UNION {[1..n -> TopRows] : n \in 0..MaxTopRows}

TopProductsInit ==
    /\ Parked /\ LoopIdle /\ FetchIdle /\ RetryIdle /\ SideIdle
    /\ mirror \in TopMirrorContents
    /\ mirror0 = mirror
    /\ analytics_pc = "idle" /\ analytics_op = "none" /\ result = NoResult

TopProductsNext ==
    \/ \E limit \in 1..MaxTopRows : GetTopProducts(limit)
    \/ AnalyticsReturn

TopProductsSpec == TopProductsInit /\ [][TopProductsNext]_vars

\* ----------------------------------------- get_price_distribution alone
\* Mirrors whose rows differ in the price only: small prices, and prices at
\* and next to the boundaries of the fixed buckets.
BucketBoundaries == {100000, 500000, 1000000, 5000000, 10000000}
DistributionPrices == {0, 10, 20, 30, 40, 99999} \cup BucketBoundaries
DistributionRows ==
    [product_name_ru : {"A"}, category_id : {1}, measure_name : {"kg"},
     unit_price : DistributionPrices, product_quantity : {2},
     is_certificate : {1}, age : {1}]
DistributionMirrorContents ==
    UNION {[1..n -> DistributionRows] : n \in 0..MaxPriceRows}

PriceDistributionInit ==
    /\ Parked /\ LoopIdle /\ FetchIdle /\ RetryIdle /\ SideIdle
    /\ mirror \in DistributionMirrorContents
    /\ mirror0 = mirror
    /\ analytics_pc = "idle" /\ analytics_op = "none" /\ result = NoResult

PriceDistributionNext ==
    \/ GetPriceDistribution
    \/ AnalyticsReturn

PriceDistributionSpec ==
    PriceDistributionInit /\ [][PriceDistributionNext]_vars

\* ============================================= the change signal and its poll
\* cache_control.json between the updater, which raises should_refresh at the
\* end of every cycle that changed data (clear_dashboard_cache), and the
\* dashboard's /api/update-status, which reads the file, clears the response
\* cache and writes the file back with the flag lowered. The two run in
\* different processes, the dashboard serves its requests in threads, and
\* nothing locks the file; every read and every write of the file is taken
\* as one step.
BaseButControl == <<store, remote, pc, mode, call, prev, categories, idx,
                    attempt, cycle_stats, self_stats, status_file, outcome,
                    start>>
OtherParts == <<loopv, fetchv, retryv, anav>>

\* cache_control["should_refresh"] = False; json.dump(cache_control, cf)
ResetFlag(local) ==
    <<[local EXCEPT !.should_refresh = FALSE]>>

\* A cycle of update_data that changed data ends: clear_dashboard_cache()
\* writes the signal, stamped with the time of the cycle.
WriteChangeSignal ==
    /\ runs < MaxRuns
    /\ runs' = runs + 1
    /\ cache_control' = clear_dashboard_cache(runs')
    /\ written' = runs'
    /\ UNCHANGED <<BaseButControl, OtherParts, rotv, poll_pc, polls, poll_control,
                   poll_response, cleared_after>>

\* A request arrives at a thread that serves none; the status record is
\* read from update_status.json.
PollBegin(p) ==
    /\ poll_pc[p] = "idle" /\ polls < MaxPolls
    /\ polls' = polls + 1
    /\ poll_control' = [poll_control EXCEPT ![p] = <<>>]
    /\ poll_pc' = [poll_pc EXCEPT ![p] = "control"]
    /\ UNCHANGED <<base, OtherParts, rotv, poll_response, written, cleared_after>>

\* if os.path.exists("cache_control.json"): cache_control = json.load(f);
\* the request goes on only if should_refresh is set.
PollLoadControl(p) ==
    /\ poll_pc[p] = "control"
    /\ IF cache_control = <<>>
       THEN /\ poll_pc' = [poll_pc EXCEPT ![p] = "idle"]
            /\ poll_response' = [poll_response EXCEPT ![p] = "status"]
            /\ UNCHANGED poll_control
       ELSE /\ poll_control' = [poll_control EXCEPT ![p] = cache_control[1]]
            /\ IF cache_control[1].should_refresh
               THEN /\ poll_pc' = [poll_pc EXCEPT ![p] = "clear"]
                    /\ UNCHANGED poll_response
               ELSE /\ poll_pc' = [poll_pc EXCEPT ![p] = "idle"]
                    /\ poll_response' = [poll_response EXCEPT ![p] = "status"]
    /\ UNCHANGED <<base, OtherParts, rotv, polls, written, cleared_after>>

\* cache.clear(): responses computed from now on see every cycle that has
\* ended by now.
PollClearCache(p) ==
    /\ poll_pc[p] = "clear"
    /\ cleared_after' = written
    /\ poll_pc' = [poll_pc EXCEPT ![p] = "reset"]
    /\ UNCHANGED <<base, OtherParts, rotv, polls, poll_control, poll_response,
                   written>>

\* The flag is lowered in the copy read and the copy is written back.
PollResetFlag(p) ==
    /\ poll_pc[p] = "reset"
    /\ cache_control' = ResetFlag(poll_control[p])
    /\ poll_response' = [poll_response EXCEPT ![p] = "cleared"]
    /\ poll_pc' = [poll_pc EXCEPT ![p] = "idle"]
    /\ UNCHANGED <<BaseButControl, runs, OtherParts, rotv, polls, poll_control,
                   written, cleared_after>>

PollInit == Parked /\ AuxIdle

PollNext ==
    \/ WriteChangeSignal
    \/ \E p \in 1..MaxPollers : PollBegin(p)
    \/ \E p \in 1..MaxPollers : PollLoadControl(p)
    \/ \E p \in 1..MaxPollers : PollClearCache(p)
    \/ \E p \in 1..MaxPollers : PollResetFlag(p)

PollSpec == PollInit /\ [][PollNext]_vars

\* ================================================ the rotation of categories
\* "Determine which categories to update" of update_data and what follows
\* from it over the cycles of one service. The category list has the ids
\* 1..n in the order the remote service returns them.
start_idx_SameEveryCycle(cycle_num, m, n) == m % n

\* start_idx = (cycle_num * MAX_CATEGORIES_PER_CYCLE) % len(categories)
start_idx(cycle_num, m, n) == (cycle_num * m) % n

\* categories[start_idx:start_idx + MAX_CATEGORIES_PER_CYCLE]: the slice ends
\* with the list
Slice(list, from, to) ==
    SubSeq(list, from + 1, IF to < Len(list) THEN to ELSE Len(list))

CategoriesToUpdate(list, m, cycle_num) ==
    IF m # 0 /\ Len(list) > m
    THEN LET s == start_idx(cycle_num, m, Len(list))
         IN  Slice(list, s, s + m)
    ELSE list

\* update_data up to the loop: the list is fetched (not empty) and the
\* categories of the cycle are chosen from self.stats["total_updates"].
RotationBegin ==
    /\ rot_pc = "idle" /\ completed < Len(category_list)
    /\ categories_to_update' =
          CategoriesToUpdate(category_list, max_categories, rot_total_updates)
    /\ rot_idx' = 1
    /\ rot_pc' = "loop"
    /\ UNCHANGED <<max_categories, category_list, rot_total_updates,
                   reconciled, completed, aborted, base, OtherParts, pollv>>

\* One iteration of the loop over categories_to_update; what goes wrong
\* inside the per-category try is recorded and the loop goes on.
RotationCategory ==
    /\ rot_pc = "loop" /\ rot_idx <= Len(categories_to_update)
    /\ reconciled' = reconciled \cup {categories_to_update[rot_idx]}
    /\ rot_idx' = rot_idx + 1
    /\ UNCHANGED <<max_categories, category_list, rot_pc, rot_total_updates,
                   categories_to_update, completed, aborted, base,
                   OtherParts, pollv>>

\* An exception outside the per-category try (a category whose name is null)
\* ends the cycle in the outer handler: total_updates keeps its value.
RotationCritical ==
    /\ rot_pc = "loop" /\ rot_idx <= Len(categories_to_update)
    /\ aborted < MaxRuns
    /\ aborted' = aborted + 1
    /\ categories_to_update' = <<>> /\ rot_idx' = 0
    /\ rot_pc' = "idle"
    /\ UNCHANGED <<max_categories, category_list, rot_total_updates,
                   reconciled, completed, base, OtherParts, pollv>>

\* The loop is over: self.stats["total_updates"] += 1
RotationFinish ==
    /\ rot_pc = "loop" /\ rot_idx > Len(categories_to_update)
    /\ rot_total_updates' = rot_total_updates + 1
    /\ completed' = completed + 1
    /\ categories_to_update' = <<>> /\ rot_idx' = 0
    /\ rot_pc' = "idle"
    /\ UNCHANGED <<max_categories, category_list, reconciled, aborted, base,
                   OtherParts, pollv>>

\* The service starts with the total_updates of update_status.json
\* (load_stats), left there by earlier services.
RotationInit ==
    /\ Parked /\ LoopIdle /\ FetchIdle /\ RetryIdle /\ AnalyticsIdle
    /\ PollIdle
    /\ max_categories \in 0..MaxWindow
    /\ \E n \in 1..MaxListed : category_list = [i \in 1..n |-> i]
    /\ rot_total_updates \in 0..MaxRuns
    /\ rot_pc = "idle" /\ categories_to_update = <<>> /\ rot_idx = 0
    /\ reconciled = {} /\ completed = 0 /\ aborted = 0

RotationNext ==
    \/ RotationBegin
    \/ RotationCategory
    \/ RotationCritical
    \/ RotationFinish

RotationSpec == RotationInit /\ [][RotationNext]_vars

\* ---------------------------------------------------------- properties
\* The ids the fetch returned (R) and the ids a table holds for the category
\* being reconciled.
RemoteIds == {o.id : o \in Range(offers)}
StoredIds(conn) == get_existing_offer_ids(conn, category_id)
WellFormed == \A o \in Range(offers) : o.shape = "ok"
\* update_category_data has returned after a fetch that succeeded with a
\* non-empty list, every record of which was written.
CleanCall ==
    pc = "done" /\ mode = "cli" /\ fetched = "ok" /\ failed_ids = {}

\* C1: when the offer fetch of a category failed (timeout, HTTP error, bad
\* envelope), the step that reconciles the category, in update_category_data
\* with either value of full_update and in the update cycle alike, deletes
\* no stored offer: every row the category had when its reconciliation began
\* is still there, so the number of its stored ids does not decrease.
C1_FailedFetchDeletesNothing ==
    [][(pc = "apply" /\ fetched = "failed") =>
          /\ StoredIds(db0) \subseteq StoredIds(db')
          /\ StoredIds(db0) \subseteq StoredIds(tx')
          /\ {x \in db0 : x.cat = category_id} \subseteq db'
          /\ Cardinality(StoredIds(db')) >= Cardinality(StoredIds(db0))]_vars

\* A full update whose fetch failed has returned, and both offers the
\* category had are still stored.
C1_Witness ==
    /\ pc = "done" /\ mode = "cli" /\ fetched = "failed" /\ full_update
    /\ Cardinality(StoredIds(db0)) >= 2
    /\ StoredIds(db) = StoredIds(db0)

\* C2: after update_category_data with full_update = True and a successfully
\* fetched non-empty list with id set R, from stored id set S: exactly the
\* ids of S \ R are deleted and counted in deleted, updated = |S /\ R|,
\* new = |R \ S|, and the category's stored id set is R.
C2_FullUpdateReconciles ==
    (CleanCall /\ full_update) =>
        LET S == StoredIds(db0)
            R == RemoteIds
        IN /\ deleted_ids = S \ R
           /\ stats.deleted = Cardinality(S \ R)
           /\ stats.updated = Cardinality(S \cap R)
           /\ stats.new = Cardinality(R \ S)
           /\ stats.total = Cardinality(R)
           /\ StoredIds(db) = R
           /\ \A x \in db : x.cat = category_id =>
                 \E o \in Range(offers) : o.id = x.id /\ o.val = x.val

\* A full update has returned that deleted an offer and kept another.
C2_Witness ==
    /\ CleanCall /\ full_update
    /\ stats.deleted >= 1 /\ stats.updated + stats.new >= 1
    /\ StoredIds(db0) \ RemoteIds # {}

\* C3: with full_update = False update_category_data deletes nothing: every
\* row stored before the call whose id is absent from the remote result is
\* still stored with the same fields, and the deleted count is 0.
C3_IncrementalNeverDeletes ==
    (pc \in {"done", "raised"} /\ mode = "cli" /\ ~full_update) =>
        /\ stats.deleted = 0 /\ deleted_ids = {}
        /\ \A x \in db0 : x.id \notin RemoteIds => x \in db

\* An incremental update has written offers and left alone a stored offer of
\* the category that the remote result lacks.
C3_Witness ==
    /\ CleanCall /\ ~full_update
    /\ stats.new + stats.updated >= 1
    /\ \E x \in db0 : x.cat = category_id /\ x.id \notin RemoteIds /\ x \in db

\* C4: a category whose fetch succeeded and confirmed zero remote offers has,
\* under full_update = True, every stored offer deleted (unlike a category
\* whose fetch failed).
C4_ConfirmedEmptyIsDeleted ==
    (pc = "done" /\ mode = "cli" /\ full_update /\ fetched = "confirmed_empty")
        => StoredIds(db) = {}

C6_SnapshotClassifies ==
    /\ [](pc \in {"fetch1", "fetch2", "apply"} =>
             existing_ids = StoredIds(db0))
    /\ [][(/\ pc = "apply" /\ fetched = "ok" /\ WellFormed
           /\ (mode = "cli" => failed_ids' = {})) =>
             LET R == RemoteIds
                 new == Cardinality(R \ existing_ids)
                 upd == Cardinality(R \cap existing_ids)
                 c == category_id
             IN /\ mode = "cli" =>
                      /\ stats'.new = new /\ stats'.updated = upd
                      /\ (created \cap R) \subseteq (R \ existing_ids)
                      /\ (created \cap R) \subseteq get_existing_offer_ids(db', c)
                      /\ created \cap deleted_ids' = {}
                /\ mode = "cycle" =>
                      /\ cycle_stats'.new_offers = cycle_stats.new_offers + new
                      /\ cycle_stats'.updated_offers =
                            cycle_stats.updated_offers + upd]_vars

\* A full update has returned that fetched an offer created after the
\* snapshot was read, next to an offer the snapshot holds.
C6_Witness ==
    /\ CleanCall /\ full_update
    /\ created \cap RemoteIds # {}
    /\ stats.new >= 1 /\ stats.updated >= 1
    /\ created \cap deleted_ids = {}

\* C7: a cycle has written the should-refresh signal iff its new, updated
\* or deleted count is non-zero, a cycle that ended with an error included.
C7_SignalIffCycleChanged ==
    pc = "cdone" =>
        (DataChanged(cycle_stats) <=> cache_control = clear_dashboard_cache(runs))

\* C8: a failure in one category (a malformed category included) does not
\* keep the cycle from the categories after it: when a cycle that fetched
\* its category list has ended, the loop has gone through the whole list.
C8_EveryCategoryIsReached ==
    (pc = "cdone" /\ categories # <<>>) => idx > Len(categories)

\* fetch_categories_with_retry has used every attempt and yielded nothing.
NoCategoriesFetched ==
    pc = "cdone" /\ categories = <<>> /\ attempt = MAX_RETRIES - 1

\* C9: when fetch_categories_with_retry yields no categories the cycle is
\* given up: the categories and offers of the mirror are those of the cycle's
\* start, the error list is not empty, last_error is set and saved, and
\* last_success, total_updates and the offer totals keep their values.
C9_NoCategoriesAbortsCycle ==
    NoCategoriesFetched =>
        /\ db = start.db /\ tx = start.db
        /\ categories_tbl = start.categories_tbl
        /\ cycle_stats.errors # <<>>
        /\ self_stats.last_error = runs
        /\ status_file = <<self_stats>>
        /\ self_stats.last_success = start.self_stats.last_success
        /\ self_stats.total_updates = start.self_stats.total_updates
        /\ self_stats.total_new_offers = start.self_stats.total_new_offers
        /\ self_stats.total_updated_offers =
              start.self_stats.total_updated_offers
        /\ self_stats.total_deleted_offers =
              start.self_stats.total_deleted_offers
        /\ cache_control = <<>> \/ cache_control[1].last_update < runs

\* A cycle was given up for want of categories after an earlier cycle had
\* completed and stored new offers.
C9_Witness ==
    /\ NoCategoriesFetched
    /\ start.db # {}
    /\ start.self_stats.total_updates >= 1
    /\ start.self_stats.total_new_offers >= 1
    /\ self_stats.last_error > self_stats.last_success

\* C10: update_data never raises to its caller: when it has ended it has
\* returned cycle_stats, and a cycle that did not complete left its error in
\* the error list and in the saved last_error.
C10_NoExceptionEscapes ==
    /\ outcome # "raised"
    /\ pc = "cdone" =>
          /\ outcome = "returned"
          /\ self_stats.last_success # runs =>
                /\ cycle_stats.errors # <<>>
                /\ self_stats.last_error = runs
                /\ status_file = <<self_stats>>

\* A cycle met a malformed category, which the outer handler caught, and has
\* returned.
C10_Witness ==
    /\ pc = "cdone" /\ outcome = "returned" /\ categories # <<>>
    /\ \E i \in 1..Len(cycle_stats.errors) :
          cycle_stats.errors[i].kind = "critical"
    /\ status_file = <<self_stats>> /\ self_stats.last_error = runs

\* C11: in run_loop every cycle, whatever its outcome, is followed by the
\* sleep loop from slice 0; the sleep loop is left only after the whole
\* interval or on a stop request, and keeps sleeping otherwise; the loop
\* goes on to the next cycle whenever the flag is set and ends only when it
\* is not: a failed cycle is neither retried at once nor ends the loop.
C11_SleepsWholeIntervalAfterEveryCycle ==
    [][\A t \in 1..MaxCalls :
          LET w == workers[t]
              v == workers'[t]
          IN /\ (w.pc = "cycle" /\ v.pc # "cycle") =>
                    (v.pc = "slice" /\ v.i = 0 /\ v.last \in CycleOutcomes)
             /\ (w.pc = "slice" /\ v.pc # "slice") =>
                    (v.pc = "test" /\ (w.i = IntervalSeconds \/ ~running))
             /\ (w.pc = "slice" /\ running /\ w.i < IntervalSeconds /\ v # w) =>
                    (v.pc = "slice" /\ v.i = w.i + 1)
             /\ (w.pc = "test" /\ v # w) =>
                    (IF running THEN v.pc = "cycle" ELSE v.pc = "exited")
             /\ (v.pc = "cycle" /\ w.pc # "cycle") => w.pc = "test"]_vars

\* With no stop ever requested, a worker has begun the next cycle after a
\* cycle that was given up, having slept the whole interval.
C11_Witness ==
    \E t \in 1..MaxCalls :
        /\ workers[t].pc = "cycle" /\ workers[t].last = "aborted"
        /\ workers[t].i = IntervalSeconds
        /\ calls = 1 /\ running

\* C12: once stop() has cleared the flag, a worker inside a reconciliation
\* pass leaves the pass when its network call in flight completes: it
\* fetches no further category.
C12_StopEndsPassAfterCallInFlight ==
    [][\A t \in 1..MaxCalls :
          (~running /\ workers[t].pc = "cycle" /\ workers'[t] # workers[t])
              => workers'[t].pc # "cycle"]_vars

\* C13: at most one worker is inside update_data at any time.
C13_AtMostOneWorkerReconciles ==
    Cardinality({t \in 1..MaxCalls : workers[t].pc = "cycle"}) <= 1

\* C14: fetch_all_offers_for_category issues first a request with take = 1
\* and afterwards at most one more, with take = the total it learnt; when
\* the first response is not a good envelope or reports total 0 no second
\* request is issued, and otherwise exactly one is.
C14_TwoStepFetch ==
    /\ requests_log \in {<<>>, <<1>>, <<1, learned_total>>}
    /\ Len(requests_log) = 2 => (first_response = "ok" /\ learned_total > 0)
    /\ fetch_pc \in {"second", "returned"} => requests_log[1] = 1
    /\ fetch_pc = "returned" =>
          IF first_response = "ok" /\ learned_total > 0
          THEN requests_log = <<1, learned_total>>
          ELSE requests_log = <<1>> /\ returned_offers = 0

\* A call has returned after a take = 1 request and one request for the
\* two offers it had learnt of.
C14_Witness ==
    /\ fetch_pc = "returned" /\ requests_log = <<1, 2>>
    /\ second_response = "ok" /\ returned_offers = 2

\* C15: when the take = total request of a category fails (a timeout), the
\* cycle reports the category as failed: an error is recorded for it, unlike
\* for a category with zero offers.
C15_FailedFullRequestIsRecorded ==
    [][(pc = "apply" /\ mode = "cycle" /\ fetched = "failed"
        /\ total_offers > 0) =>
          Len(cycle_stats'.errors) > Len(cycle_stats.errors)]_vars

C17_BadEnvelopeIsNotRetried ==
    \A i \in 1..Len(attempts_log) :
        attempts_log[i].response = "bad_envelope" =>
            (i = Len(attempts_log) /\ retry_pc # "attempting")

\* C18: in insert_or_update_offers a record that fails is skipped alone: the
\* call returns, every other record of the list is stored and committed,
\* and new + updated is the number of records written.
C18_RecordFailureSkipsOnlyThatRecord ==
    (mode = "cli" /\ pc \in {"done", "raised"} /\ fetched = "ok") =>
        LET bad == {o \in Range(offers) :
                       o.shape = "malformed" \/ o.id \in failed_ids}
            good == Range(offers) \ bad
        IN /\ pc = "done"
           /\ \A o \in good :
                 [id |-> o.id, cat |-> category_id, val |-> o.val] \in db
           /\ stats.new + stats.updated = Cardinality(good)

C20_EveryAggregationReturnsAResult ==
    analytics_pc = "done" => ~result.raised

\* The product of a returned record.
KeyOf(r) == <<r.product_name, r.category_id>>

\* A get_top_products call has returned the list result.value.
TopProductsReturned ==
    /\ analytics_pc = "done"
    /\ analytics_op = "get_top_products"
    /\ ~result.raised

\* C21: for a product with offers in two or more measurement units,
\* min_price is the smallest positive unit price among the product's
\* offers and max_price the largest unit price.
C21_MinMaxOverAllUnits ==
    TopProductsReturned =>
        \A j \in DOMAIN result.value :
            LET r == result.value[j]
                I == ProductRows(mirror, KeyOf(r))
            IN  Cardinality(UnitsOf(mirror, KeyOf(r))) >= 2 =>
                    /\ r.min_price
                         = Least({p \in PricesIn(mirror, I) : p > 0})
                    /\ r.max_price = Greatest(PricesIn(mirror, I))

\* C22: get_top_products runs the per-product detail query exactly once per
\* returned product: limit times when more than limit products exist, not
\* once per aggregated product.
C22_DetailQueryOncePerReturnedProduct ==
    TopProductsReturned => result.detail_queries = Len(result.value)

\* C23: the avg_price of a returned product is the unweighted mean of its
\* per-unit average prices: every unit group counts once, however many
\* offers it holds.
C23_AvgIsMeanOfUnitMeans ==
    TopProductsReturned =>
        \A j \in DOMAIN result.value :
            LET r == result.value[j]
                k == KeyOf(r)
                U == UnitsOf(mirror, k)
                \* the average of group u, in twelfths
                mean12(u) ==
                    SumOver(PriceOf(mirror), UnitRows(mirror, k, u))
                      * (12 \div Cardinality(UnitRows(mirror, k, u)))
            IN  r.avg_price
                  = Round2(SumOver([u \in U |-> mean12(u)], U),
                           12 * Cardinality(U))

\* C24: every returned product carries as post_count the number of its
\* offers and as total_quantity the sum of their quantities, whatever
\* their unit labels; the list is in falling order of post_count and no
\* longer than limit.
C24_CountsFoldedOverAllUnits ==
    [][\A limit \in 1..MaxTopRows :
          (GetTopProducts(limit) /\ ~result'.raised) =>
              /\ Len(result'.value) <= limit
              /\ \A a, b \in DOMAIN result'.value :
                     a < b => result'.value[a].post_count
                                >= result'.value[b].post_count
              /\ \A j \in DOMAIN result'.value :
                     LET r == result'.value[j]
                         I == ProductRows(mirror, KeyOf(r))
                     IN  /\ r.post_count = Cardinality(I)
                         /\ r.total_quantity
                              = SumOver(QuantityOf(mirror), I)]_vars

\* C25: the price_distribution of a returned product partitions its
\* positive-priced offers around its own avg_price: low below 0.7 avg, mid
\* from 0.7 avg to below 1.3 avg, high from 1.3 avg; an offer with a zero
\* or negative price is in no bucket.
C25_BucketsPartitionPositivePrices ==
    TopProductsReturned =>
        \A j \in DOMAIN result.value :
            LET r == result.value[j]
                I == ProductRows(mirror, KeyOf(r))
                P == {i \in I : mirror[i].unit_price > 0}
                d == r.price_distribution
                \* price < x * avg / 10, avg in hundredths
                Below(i, x) == 1000 * mirror[i].unit_price < x * r.avg_price
            IN  /\ d.low = Cardinality({i \in P : Below(i, 7)})
                /\ d.mid = Cardinality({i \in P :
                                           ~Below(i, 7) /\ Below(i, 13)})
                /\ d.high = Cardinality({i \in P : ~Below(i, 13)})
                /\ d.low + d.mid + d.high = Cardinality(P)

\* A returned product with an offer without a positive price and with
\* offers in two different buckets.
C25_Witness ==
    /\ TopProductsReturned
    /\ \E j \in DOMAIN result.value :
           LET r == result.value[j]
               I == ProductRows(mirror, KeyOf(r))
               d == r.price_distribution
           IN  /\ \E i \in I : mirror[i].unit_price <= 0
               /\ Cardinality({x \in {"low", "mid", "high"} : d[x] > 0}) = 2

\* A get_price_distribution call has returned the record result.value.
PriceDistributionReturned ==
    /\ analytics_pc = "done"
    /\ analytics_op = "get_price_distribution"

\* The rows with a positive price, and the k-th smallest of their prices.
Positive == {i \in DOMAIN mirror : mirror[i].unit_price > 0}
KthSmallest(k) ==
    CHOOSE v \in PricesIn(mirror, Positive) :
        /\ Cardinality({i \in Positive : mirror[i].unit_price < v}) < k
        /\ Cardinality({i \in Positive : mirror[i].unit_price <= v}) >= k

\* C26: median_price is the exact median of the positive unit prices: the
\* middle one of an odd number, the mean of the two middle ones of an even
\* number (25 for 10, 20, 30, 40 and 20 for 10, 20, 30), 0 when there is
\* none; offers priced 0 take no part.
C26_MedianOfPositivePrices ==
    PriceDistributionReturned =>
        LET n == Cardinality(Positive)
            med == result.value.median_price
        IN  /\ n = 0 => med = 0
            /\ n > 0 => med = 50 * (KthSmallest((n + 1) \div 2)
                                      + KthSmallest(n \div 2 + 1))
            /\ (n = 4 /\ PricesIn(mirror, Positive) = {10, 20, 30, 40})
                  => med = 2500
            /\ (n = 3 /\ PricesIn(mirror, Positive) = {10, 20, 30})
                  => med = 2000

\* The median of 10, 20, 30, 40 was returned.
C26_Witness ==
    /\ PriceDistributionReturned
    /\ Cardinality(Positive) = 4
    /\ PricesIn(mirror, Positive) = {10, 20, 30, 40}
    /\ result.value.median_price = 2500

\* The number of boundaries a price has reached: the index of its bucket.
BucketOf(p) == Cardinality({b \in BucketBoundaries : b <= p})
BucketCounts ==
    LET v == result.value.price_ranges
    IN  <<v.under_100k, v.from_100k_to_500k, v.from_500k_to_1m,
          v.from_1m_to_5m, v.from_5m_to_10m, v.over_10m>>

\* C27: the six fixed buckets partition the positive prices: each is
\* counted in exactly one bucket, a price equal to a boundary in the upper
\* one, and the six counts sum to total_offers.
C27_FixedBucketsPartition ==
    PriceDistributionReturned =>
        /\ \A b \in 0..5 :
               BucketCounts[b + 1]
                 = Cardinality({i \in Positive :
                                   BucketOf(mirror[i].unit_price) = b})
        /\ SumOver(BucketCounts, 1..6) = result.value.total_offers
        /\ result.value.total_offers = Cardinality(Positive)

\* Prices at a boundary and just below it were counted.
C27_Witness ==
    /\ PriceDistributionReturned
    /\ \E i \in Positive : mirror[i].unit_price = 100000
    /\ \E i \in Positive : mirror[i].unit_price = 99999
    /\ \E i \in Positive : mirror[i].unit_price = 10000000
    /\ result.value.price_ranges.from_100k_to_500k = 1
    /\ result.value.price_ranges.under_100k = 1



\* ------------------------------------------------------- the running totals
\* update_data has ended and its return value, cycle_stats, is at hand;
\* start.self_stats is self.stats as the cycle found it.
CycleEnded == mode = "cycle" /\ pc = "cdone"
\* The counts the cycle reported were added to the totals.
CountsAdded ==
    /\ self_stats.total_new_offers
         = start.self_stats.total_new_offers + cycle_stats.new_offers
    /\ self_stats.total_updated_offers
         = start.self_stats.total_updated_offers + cycle_stats.updated_offers
    /\ self_stats.total_deleted_offers
         = start.self_stats.total_deleted_offers + cycle_stats.deleted_offers
\* The cycle was counted.
CycleCounted == self_stats.total_updates = start.self_stats.total_updates + 1

\* C28: after any sequence of update cycles the three offer totals of the
\* status record are the sums of the counts the cycles reported and
\* total_updates is the number of cycles run. Stated cycle by cycle: when a
\* cycle has ended, each total is its value at the start of the cycle plus
\* the count the cycle returned, total_updates is one more than at the start,
\* and the saved record is the one in memory.
C28_TotalsAreSumsOverCycles ==
    CycleEnded => /\ CountsAdded
                  /\ CycleCounted
                  /\ status_file = <<self_stats>>
\* The part about the offer counts alone.
C28_ReportedCountsAdded == CycleEnded => CountsAdded
\* The totals never decrease.
C28_TotalsNeverDecrease ==
    [][/\ self_stats'.total_updates >= self_stats.total_updates
       /\ self_stats'.total_new_offers >= self_stats.total_new_offers
       /\ self_stats'.total_updated_offers >= self_stats.total_updated_offers
       /\ self_stats'.total_deleted_offers >= self_stats.total_deleted_offers]_vars

\* ------------------------------------------------------- the change signal
\* A signal was written that no cache.clear() has followed yet.
SignalPending == written > cleared_after
FlagUp == cache_control # <<>> /\ cache_control[1].should_refresh

\* C29: with the updater and the poll running concurrently no change signal
\* is lost: a signal written by a cycle is followed by a poll that clears the
\* response cache, and the poll lowers the flag only for a signal written
\* before it cleared the cache. As long as a written signal has not been
\* followed by a cache.clear(), the flag in cache_control.json is still up
\* for a later poll to find.
C29_NoChangeSignalLost == SignalPending => FlagUp
\* The poll has lowered the flag of the signal it acted on.
C29_SignalHandled ==
    /\ written >= 1 /\ cleared_after = written
    /\ \A p \in 1..MaxPollers : poll_pc[p] = "idle"
    /\ \E p \in 1..MaxPollers : poll_response[p] = "cleared"
    /\ ~FlagUp

\* ------------------------------------------------------------ the rotation
\* MAX_CATEGORIES_PER_CYCLE is set and the list is longer.
Rotating == max_categories # 0 /\ Len(category_list) > max_categories
\* The categories at the 0-based positions from, ..., from + max_categories - 1
\* of the list, as far as the list goes.
WindowFrom(from) ==
    {category_list[i + 1] : i \in {j \in 0..(Len(category_list) - 1) :
                                     from <= j /\ j < from + max_categories}}

\* C30: when MAX_CATEGORIES_PER_CYCLE = M is set and the category list has
\* n > M entries, a cycle reconciles the window of at most M consecutive
\* categories that starts at index (total_updates * M) mod n, in the order
\* of the list; and with the list unchanged, once n cycles have completed
\* every category has been reconciled in some cycle.
C30_RotationReachesEveryCategory ==
    Rotating =>
      /\ rot_pc = "loop" =>
           LET from == (rot_total_updates * max_categories)
                          % Len(category_list)
               w == categories_to_update
           IN  /\ Len(w) >= 1 /\ Len(w) <= max_categories
               /\ \A j \in 1..Len(w) : w[j] = category_list[from + j]
               /\ Range(w) = WindowFrom(from)
      /\ completed >= Len(category_list) =>
           reconciled = Range(category_list)
\* Two categories a cycle out of three, three cycles completed: the window
\* has wrapped and every category was taken up.
C30_Witness ==
    /\ max_categories = 2 /\ Len(category_list) = 3
    /\ completed = 3 /\ rot_pc = "idle"
    /\ reconciled = Range(category_list)
====
